---- MODULE Spec2Model ----
(***************************************************************************)
(* Hint generation engine of the cryptic-hints backend                     *)
(* (src/enhanced_hints.py): author detection, the regex hint path, the     *)
(* Claude path with its fallback, as a state machine.                      *)
(*                                                                         *)
(* A Python str is a sequence of one-character strings, so that the        *)
(* regular expressions, `in` tests, lower() and the f-strings of the       *)
(* source are computed character by character.                             *)
(***************************************************************************)
EXTENDS Integers, Sequences, FiniteSets, TLC

(***************************************************************************)
(* Characters and str helpers                                              *)
(***************************************************************************)
UpperChars == <<"A","B","C","D","E","F","G","H","I","J","K","L","M","N","O","P","Q","R","S","T","U","V","W","X","Y","Z">>
LowerChars == <<"a","b","c","d","e","f","g","h","i","j","k","l","m","n","o","p","q","r","s","t","u","v","w","x","y","z">>
DigitChars == <<"0","1","2","3","4","5","6","7","8","9">>
UpperSet == {UpperChars[i] : i \in 1..Len(UpperChars)}
LowerSet == {LowerChars[i] : i \in 1..Len(LowerChars)}
DigitSet == {DigitChars[i] : i \in 1..Len(DigitChars)}
QuoteSet == {"'", "\""}
SpaceSet == {" ", "\n", "\t"}
\* the character class \w (ASCII part)
WordSet == UpperSet \cup LowerSet \cup DigitSet \cup {"_"}

ToLower == [c \in UpperSet |-> LowerChars[CHOOSE i \in 1..Len(UpperChars) : UpperChars[i] = c]]

\* str.lower()
lower(s) == [i \in 1..Len(s) |-> IF s[i] \in UpperSet THEN ToLower[s[i]] ELSE s[i]]

\* s[i:j] on 1-based positions i..j-1, empty when j <= i
Slice(s, i, j) == IF j <= i THEN << >> ELSE SubSeq(s, i, j - 1)

\* the literal p occurs in s at position i
MatchAt(s, i, p) == /\ i >= 1
                    /\ i + Len(p) - 1 <= Len(s)
                    /\ \A j \in 1..Len(p) : s[i + j - 1] = p[j]

\* Python's `p in s`
Contains(s, p) == \E i \in 1..(Len(s) - Len(p) + 1) : MatchAt(s, i, p)

\* any(p in s for p in ps)
ContainsAny(s, ps) == \E k \in 1..Len(ps) : Contains(s, ps[k])

Min(S) == CHOOSE x \in S : \A y \in S : x <= y
Max(S) == CHOOSE x \in S : \A y \in S : x >= y

\* the first position >= i whose character is not in class C (Len(s)+1 if none):
\* the end of the greedy run C* started at i
RunEnd(s, i, C) == Min({k \in i..(Len(s) + 1) : k = Len(s) + 1 \/ s[k] \notin C})

\* the first position <= i+1 ... start of the run of C that ends just before i
RunStart(s, i, C) == Max({k \in 1..i : k = 1 \/ s[k - 1] \notin C})

\* str.strip() for the whitespace of the model's alphabet
strip(s) ==
    LET ks == {k \in 1..Len(s) : s[k] \notin SpaceSet}
    IN  IF ks = {} THEN << >> ELSE SubSeq(s, Min(ks), Max(ks))

\* ' '.join(parts)
RECURSIVE JoinWith(_, _)
JoinWith(parts, sep) ==
    IF Len(parts) = 0 THEN << >>
    ELSE IF Len(parts) = 1 THEN parts[1]
    ELSE parts[1] \o sep \o JoinWith(Tail(parts), sep)

\* the sentinel for re.search(...) is None / a missing value
None == <<"None">>

(***************************************************************************)
(* AuthorStyleDetector                                                     *)
(***************************************************************************)
\* KNOWN_AUTHORS, in dict (insertion) order
KNOWN_AUTHORS == << <<"p","e","t","e","r","o">>, <<"v","e","r","l","a","i","n","e">>, <<"v","i","n","y","l">>, <<"p","o","m","m","e","r","s">>, <<"j","a","c","k","k","t">>,
                    <<"b","e","r","t","a","n","d","j","o","y","c","e">>, <<"a","l","a","n","k","d">>, <<"c","o","r","n","i","c","k">> >>
KnownAuthorSet == {KNOWN_AUTHORS[i] : i \in 1..Len(KNOWN_AUTHORS)}

\* the tail  by\s+([a-z]+)  of the pattern matches at position b
ByAt(s, b) ==
    /\ MatchAt(s, b, <<"b","y">>)
    /\ b + 2 <= Len(s) /\ s[b + 2] \in SpaceSet
    /\ RunEnd(s, b + 2, SpaceSet) <= Len(s)
    /\ s[RunEnd(s, b + 2, SpaceSet)] \in LowerSet

\* group(1) of that tail: the greedy run [a-z]+
ByCapture(s, b) ==
    LET g == RunEnd(s, b + 2, SpaceSet)
    IN  Slice(s, g, RunEnd(s, g, LowerSet))

\* The position of "by" in the match of
\*     (?:at|posted)\s+.*?\s+by\s+([a-z]+)
\* that starts with the alternative ending just before e, or 0.  The first
\* \s+ is greedy and ends at p; the lazy .*? (no newline) then grows until
\* \s+by\s+[a-z] follows, which finds the leftmost such "by" after p; only
\* when that fails the first \s+ gives whitespace back and "by" at p matches.
ByFrom(s, e) ==
    IF ~(e <= Len(s) /\ s[e] \in SpaceSet) THEN 0
    ELSE LET p  == RunEnd(s, e, SpaceSet)
             bs == {b \in (p + 2)..Len(s) : s[b - 1] \in SpaceSet /\ ByAt(s, b)}
             b1 == Min(bs)
             r1 == RunStart(s, b1, SpaceSet)
         IN  IF bs # {} /\ \A k \in p..(r1 - 1) : s[k] # "\n" THEN b1
             ELSE IF p - e >= 2 /\ ByAt(s, p) THEN p
             ELSE 0

\* re.search of the pattern in s: group(1) of the leftmost match, or None
AuthorByMatch(s) ==
    LET EndOfAlt(i) == IF MatchAt(s, i, <<"a","t">>) THEN i + 2
                       ELSE IF MatchAt(s, i, <<"p","o","s","t","e","d">>) THEN i + 6
                       ELSE 0
        starts == {i \in 1..Len(s) : EndOfAlt(i) # 0 /\ ByFrom(s, EndOfAlt(i)) # 0}
    IN  IF starts = {} THEN None
        ELSE ByCapture(s, ByFrom(s, EndOfAlt(Min(starts))))

\* the first author of KNOWN_AUTHORS that occurs in s, or None
FirstKnownIn(s) ==
    LET ks == {k \in 1..Len(KNOWN_AUTHORS) : Contains(s, KNOWN_AUTHORS[k])}
    IN  IF ks = {} THEN None ELSE KNOWN_AUTHORS[Min(ks)]

\* detect_author looking at the URL before the content
detect_author_url_first(u, c) ==
    LET content_lower == lower(c)
    IN  IF FirstKnownIn(lower(u)) # None THEN FirstKnownIn(lower(u))
        ELSE IF AuthorByMatch(content_lower) # None /\ AuthorByMatch(content_lower) \in KnownAuthorSet
            THEN AuthorByMatch(content_lower)
        ELSE IF FirstKnownIn(content_lower) # None THEN FirstKnownIn(content_lower)
        ELSE <<"g","e","n","e","r","i","c">>

detect_author(u, c) ==
    LET content_lower == lower(c)
        by_match == AuthorByMatch(content_lower)
    IN  IF by_match # None /\ by_match \in KnownAuthorSet THEN by_match
        ELSE IF FirstKnownIn(content_lower) # None THEN FirstKnownIn(content_lower)
        ELSE IF FirstKnownIn(lower(u)) # None THEN FirstKnownIn(lower(u))
        ELSE <<"g","e","n","e","r","i","c">>

(***************************************************************************)
(* Technique lexicon                                                       *)
(***************************************************************************)
\* WORDPLAY_TECHNIQUES, in dict (insertion) order: name, keywords, hint
WORDPLAY_TECHNIQUES == <<
    [name |-> <<"a","n","a","g","r","a","m">>,
     keywords |-> <<
        <<"a","n","a","g","r","a","m">>, <<"m","i","x","e","d">>, <<"c","o","n","f","u","s","e","d">>, <<"s","c","r","a","m","b","l","e","d">>, <<"b","r","o","k","e","n">>, <<"s","h","a","t","t","e","r","e","d">>,
        <<"r","e","a","r","r","a","n","g","e","d">>, <<"s","o","r","t","e","d">>, <<"s","h","u","f","f","l","e","d">>, <<"m","a","n","g","l","e","d">>, <<"d","i","s","r","u","p","t","e","d">>, <<"r","e","w","o","r","k","e","d">>,
        <<"r","e","b","u","i","l","t">>, <<"r","e","f","o","r","m","e","d">>, <<"r","e","s","h","a","p","e","d">>, <<"c","o","c","k","t","a","i","l">>, <<"d","r","u","n","k">>, <<"c","r","a","z","y">>, <<"w","i","l","d">>,
        <<"d","e","s","t","r","o","y","e","d">>, <<"d","a","m","a","g","e","d">>, <<"r","u","i","n","e","d">>, <<"b","a","d","l","y">>, <<"o","f","f">>, <<"w","r","o","n","g">>, <<"p","o","o","r">> >>,
     hint |-> <<"T","h","i","s"," ","c","l","u","e"," ","u","s","e","s"," ","a","n"," ","a","n","a","g","r","a","m"," ","-"," ","l","o","o","k"," ","f","o","r"," ","a","n"," ","a","n","a","g","r","a","m"," ","i","n","d","i","c","a","t","o","r"," ","a","n","d"," ","l","e","t","t","e","r","s"," ","t","o"," ","r","e","a","r","r","a","n","g","e">>],
    [name |-> <<"h","i","d","d","e","n">>,
     keywords |-> <<
        <<"h","i","d","d","e","n">>, <<"c","o","n","c","e","a","l","e","d">>, <<"b","u","r","i","e","d">>, <<"l","u","r","k","i","n","g">>, <<"e","m","b","e","d","d","e","d">>, <<"w","i","t","h","i","n">>, <<"i","n","s","i","d","e">>,
        <<"s","o","m","e"," ","o","f">>, <<"p","a","r","t"," ","o","f">>, <<"h","e","l","d"," ","b","y">>, <<"c","o","n","t","a","i","n","e","d"," ","i","n">>, <<"p","a","r","t","i","a","l","l","y">> >>,
     hint |-> <<"T","h","e"," ","a","n","s","w","e","r"," ","i","s"," ","h","i","d","d","e","n"," ","w","i","t","h","i","n"," ","t","h","e"," ","c","l","u","e"," ","t","e","x","t"," ","i","t","s","e","l","f">>],
    [name |-> <<"r","e","v","e","r","s","a","l">>,
     keywords |-> <<
        <<"r","e","v","e","r","s","a","l">>, <<"r","e","v","e","r","s","e","d">>, <<"b","a","c","k">>, <<"b","a","c","k","w","a","r","d">>, <<"r","e","t","u","r","n","e","d">>, <<"r","e","t","i","r","i","n","g">>,
        <<"r","e","f","l","e","c","t","e","d">>, <<"f","l","i","p","p","e","d">>, <<"o","v","e","r","t","u","r","n","e","d">>, <<"u","p">>, <<"r","i","s","i","n","g">>, <<"g","o","i","n","g"," ","n","o","r","t","h">>,
        <<"r","e","t","u","r","n","i","n","g">>, <<"r","e","t","r","e","a","t","i","n","g">>, <<"r","e","v","o","l","u","t","i","o","n","a","r","y">> >>,
     hint |-> <<"T","h","i","s"," ","i","s"," ","a"," ","r","e","v","e","r","s","a","l"," ","c","l","u","e"," ","-"," ","l","o","o","k"," ","f","o","r"," ","i","n","d","i","c","a","t","o","r","s"," ","l","i","k","e"," ","'","b","a","c","k","'",","," ","'","r","e","t","u","r","n","e","d","'",","," ","'","u","p","'"," ","(","i","n"," ","d","o","w","n"," ","c","l","u","e","s",")",","," ","o","r"," ","'","w","e","s","t","'"," ","(","i","n"," ","a","c","r","o","s","s"," ","c","l","u","e","s",")">>],
    [name |-> <<"c","o","n","t","a","i","n","e","r">>,
     keywords |-> <<
        <<"c","o","n","t","a","i","n","e","r">>, <<"e","n","v","e","l","o","p","e">>, <<"a","r","o","u","n","d">>, <<"o","u","t","s","i","d","e">>, <<"w","r","a","p","p","i","n","g">>, <<"h","o","l","d","i","n","g">>,
        <<"e","m","b","r","a","c","i","n","g">>, <<"c","l","u","t","c","h","i","n","g">>, <<"g","r","a","s","p","i","n","g">>, <<"c","o","n","t","a","i","n","i","n","g">>, <<"s","w","a","l","l","o","w","i","n","g">>,
        <<"s","u","r","r","o","u","n","d","i","n","g">>, <<"b","o","x","i","n","g">>, <<"c","i","r","c","l","i","n","g">> >>,
     hint |-> <<"T","h","i","s"," ","i","s"," ","a"," ","c","o","n","t","a","i","n","e","r"," ","c","l","u","e"," ","-"," ","l","o","o","k"," ","f","o","r"," ","i","n","d","i","c","a","t","o","r","s"," ","l","i","k","e"," ","'","a","r","o","u","n","d","'",","," ","'","h","o","l","d","i","n","g","'",","," ","'","o","u","t","s","i","d","e","'",","," ","'","e","m","b","r","a","c","i","n","g","'"," ","w","h","e","r","e"," ","o","n","e"," ","p","a","r","t"," ","w","r","a","p","s"," ","a","r","o","u","n","d"," ","a","n","o","t","h","e","r">>],
    [name |-> <<"i","n","s","e","r","t","i","o","n">>,
     keywords |-> <<
        <<"i","n","s","e","r","t","i","o","n">>, <<"i","n","s","e","r","t","e","d">>, <<"e","n","t","e","r","i","n","g">>, <<"g","o","i","n","g"," ","i","n","t","o">>, <<"p","u","t"," ","i","n">>, <<"p","l","a","c","e","d"," ","i","n">>,
        <<"w","i","t","h","i","n">>, <<"i","n","t","o">>, <<"p","i","e","r","c","i","n","g">>, <<"i","n","t","e","r","r","u","p","t","i","n","g">> >>,
     hint |-> <<"O","n","e"," ","p","a","r","t"," ","g","o","e","s"," ","i","n","s","i","d","e"," ","a","n","o","t","h","e","r"," ","t","o"," ","f","o","r","m"," ","t","h","e"," ","a","n","s","w","e","r">>],
    [name |-> <<"h","o","m","o","p","h","o","n","e">>,
     keywords |-> <<
        <<"s","o","u","n","d","s"," ","l","i","k","e">>, <<"h","o","m","o","p","h","o","n","e">>, <<"w","e"," ","h","e","a","r">>, <<"a","u","d","i","b","l","y">>, <<"a","l","o","u","d">>, <<"s","p","o","k","e","n">>, <<"s","a","y">>,
        <<"s","a","i","d">>, <<"h","e","a","r","d">>, <<"o","r","a","l","l","y">>, <<"v","o","c","a","l">>, <<"b","r","o","a","d","c","a","s","t">>, <<"o","n"," ","t","h","e"," ","r","a","d","i","o">>,
        <<"r","e","p","o","r","t","e","d","l","y">>, <<"t","o"," ","t","h","e"," ","e","a","r">> >>,
     hint |-> <<"T","h","i","s"," ","i","s"," ","a"," ","h","o","m","o","p","h","o","n","e"," ","c","l","u","e"," ","-"," ","l","o","o","k"," ","f","o","r"," ","i","n","d","i","c","a","t","o","r","s"," ","l","i","k","e"," ","'","w","e"," ","h","e","a","r","'",","," ","'","s","o","u","n","d","s"," ","l","i","k","e","'",","," ","'","s","a","y","'",","," ","'","a","l","o","u","d","'",","," ","o","r"," ","'","r","e","p","o","r","t","e","d","l","y","'"," ","-"," ","t","h","e"," ","a","n","s","w","e","r"," ","s","o","u","n","d","s"," ","l","i","k","e"," ","a","n","o","t","h","e","r"," ","w","o","r","d">>],
    [name |-> <<"d","o","u","b","l","e","_","d","e","f","i","n","i","t","i","o","n">>,
     keywords |-> <<
        <<"d","o","u","b","l","e"," ","d","e","f","i","n","i","t","i","o","n">>, <<"t","w","o"," ","d","e","f","i","n","i","t","i","o","n","s">>, <<"t","w","o"," ","m","e","a","n","i","n","g","s">>, <<"t","w","i","n"," ","d","e","f","i","n","i","t","i","o","n","s">> >>,
     hint |-> <<"T","h","i","s"," ","i","s"," ","a"," ","d","o","u","b","l","e"," ","d","e","f","i","n","i","t","i","o","n"," ","-"," ","t","w","o"," ","s","e","p","a","r","a","t","e"," ","m","e","a","n","i","n","g","s"," ","f","o","r"," ","t","h","e"," ","s","a","m","e"," ","a","n","s","w","e","r">>],
    [name |-> <<"c","h","a","r","a","d","e">>,
     keywords |-> <<
        <<"c","h","a","r","a","d","e">>, <<"f","o","l","l","o","w","e","d"," ","b","y">>, <<"a","f","t","e","r">>, <<"b","e","f","o","r","e">>, <<"t","h","e","n">>, <<"n","e","x","t"," ","t","o">>, <<"b","e","s","i","d","e">>,
        <<"w","i","t","h">>, <<"p","l","u","s">>, <<"a","n","d">>, <<"l","e","a","d","s"," ","t","o">>, <<"p","r","e","c","e","d","e","s">> >>,
     hint |-> <<"T","h","e"," ","a","n","s","w","e","r"," ","i","s"," ","b","u","i","l","t"," ","b","y"," ","j","o","i","n","i","n","g"," ","p","a","r","t","s"," ","t","o","g","e","t","h","e","r"," ","i","n"," ","s","e","q","u","e","n","c","e">>],
    [name |-> <<"d","e","l","e","t","i","o","n">>,
     keywords |-> <<
        <<"d","e","l","e","t","i","o","n">>, <<"r","e","m","o","v","i","n","g">>, <<"w","i","t","h","o","u","t">>, <<"l","o","s","i","n","g">>, <<"d","r","o","p","p","i","n","g">>, <<"m","i","s","s","i","n","g">>,
        <<"h","e","a","r","t","l","e","s","s">>, <<"h","e","a","d","l","e","s","s">>, <<"e","n","d","l","e","s","s">>, <<"b","e","h","e","a","d","e","d">>, <<"c","u","r","t","a","i","l","e","d">>, <<"t","r","i","m","m","e","d">>,
        <<"c","u","t">>, <<"s","h","o","r","t">>, <<"l","e","s","s">>, <<"l","a","c","k","i","n","g">>, <<"l","o","s","e","s">> >>,
     hint |-> <<"T","h","i","s"," ","i","s"," ","a"," ","d","e","l","e","t","i","o","n"," ","c","l","u","e"," ","-"," ","l","o","o","k"," ","f","o","r"," ","i","n","d","i","c","a","t","o","r","s"," ","l","i","k","e"," ","'","h","e","a","d","l","e","s","s","'"," ","(","r","e","m","o","v","e"," ","f","i","r","s","t"," ","l","e","t","t","e","r",")",","," ","'","e","n","d","l","e","s","s","'"," ","(","r","e","m","o","v","e"," ","l","a","s","t"," ","l","e","t","t","e","r",")",","," ","'","h","e","a","r","t","l","e","s","s","'"," ","(","r","e","m","o","v","e"," ","m","i","d","d","l","e"," ","l","e","t","t","e","r",")",","," ","o","r"," ","'","w","i","t","h","o","u","t","'">>],
    [name |-> <<"a","b","b","r","e","v","i","a","t","i","o","n">>,
     keywords |-> <<
        <<"a","b","b","r","e","v","i","a","t","i","o","n">>, <<"a","b","b","r","e","v">>, <<"s","h","o","r","t"," ","f","o","r">>, <<"s","t","a","n","d","s"," ","f","o","r">>, <<"i","n","i","t","i","a","l","l","y">>,
        <<"f","i","r","s","t"," ","l","e","t","t","e","r","s">>, <<"s","t","a","r","t","s">>, <<"l","e","a","d","e","r">>, <<"h","e","a","d"," ","o","f">>, <<"c","a","p","i","t","a","l">> >>,
     hint |-> <<"L","o","o","k"," ","f","o","r"," ","a","b","b","r","e","v","i","a","t","i","o","n","s"," ","o","r"," ","s","h","o","r","t","e","n","e","d"," ","f","o","r","m","s">>],
    [name |-> <<"i","n","i","t","i","a","l","_","l","e","t","t","e","r","s">>,
     keywords |-> <<
        <<"i","n","i","t","i","a","l">>, <<"i","n","i","t","i","a","l","s">>, <<"f","i","r","s","t"," ","l","e","t","t","e","r","s">>, <<"s","t","a","r","t","s">>, <<"h","e","a","d","s">>, <<"l","e","a","d","e","r","s">>,
        <<"a","c","r","o","s","t","i","c">>, <<"o","p","e","n","i","n","g">> >>,
     hint |-> <<"T","a","k","e"," ","t","h","e"," ","f","i","r","s","t"," ","l","e","t","t","e","r","s"," ","o","f"," ","c","e","r","t","a","i","n"," ","w","o","r","d","s">>],
    [name |-> <<"f","i","n","a","l","_","l","e","t","t","e","r","s">>,
     keywords |-> <<
        <<"f","i","n","a","l"," ","l","e","t","t","e","r","s">>, <<"l","a","s","t"," ","l","e","t","t","e","r","s">>, <<"e","n","d","s">>, <<"t","a","i","l","s">>, <<"t","e","r","m","i","n","a","l","s">>, <<"f","i","n","i","s","h","e","s">> >>,
     hint |-> <<"T","a","k","e"," ","t","h","e"," ","l","a","s","t"," ","l","e","t","t","e","r","s"," ","o","f"," ","c","e","r","t","a","i","n"," ","w","o","r","d","s">>],
    [name |-> <<"s","p","o","o","n","e","r","i","s","m">>,
     keywords |-> <<
        <<"s","p","o","o","n","e","r","i","s","m">>, <<"s","p","o","o","n","e","r">>, <<"s","w","a","p">>, <<"s","w","i","t","c","h">> >>,
     hint |-> <<"T","h","i","s"," ","i","s"," ","a"," ","s","p","o","o","n","e","r","i","s","m"," ","-"," ","s","w","a","p"," ","i","n","i","t","i","a","l"," ","s","o","u","n","d","s"," ","b","e","t","w","e","e","n"," ","w","o","r","d","s">>],
    [name |-> <<"c","r","y","p","t","i","c","_","d","e","f","i","n","i","t","i","o","n">>,
     keywords |-> <<
        <<"c","r","y","p","t","i","c"," ","d","e","f","i","n","i","t","i","o","n">>, <<"w","h","i","m","s","i","c","a","l">>, <<"p","l","a","y","f","u","l"," ","d","e","f","i","n","i","t","i","o","n">>, <<"&","l","i","t">> >>,
     hint |-> <<"T","h","e"," ","w","h","o","l","e"," ","c","l","u","e"," ","i","s"," ","a"," ","c","r","y","p","t","i","c"," ","d","e","f","i","n","i","t","i","o","n"," ","-"," ","t","h","i","n","k"," ","l","a","t","e","r","a","l","l","y">>],
    [name |-> <<"l","e","t","t","e","r","_","s","e","l","e","c","t","i","o","n">>,
     keywords |-> <<
        <<"o","d","d"," ","l","e","t","t","e","r","s">>, <<"e","v","e","n"," ","l","e","t","t","e","r","s">>, <<"a","l","t","e","r","n","a","t","e">>, <<"r","e","g","u","l","a","r","l","y">>, <<"e","v","e","r","y"," ","o","t","h","e","r">> >>,
     hint |-> <<"S","e","l","e","c","t"," ","s","p","e","c","i","f","i","c"," ","l","e","t","t","e","r","s"," ","(","o","d","d",","," ","e","v","e","n",","," ","o","r"," ","a","l","t","e","r","n","a","t","i","n","g",")">>]
>>

TechIndex(n) == CHOOSE k \in 1..Len(WORDPLAY_TECHNIQUES) : WORDPLAY_TECHNIQUES[k].name = n
TechHint(n) == WORDPLAY_TECHNIQUES[TechIndex(n)].hint

\* len(keyword.split()): the number of whitespace-separated words
WordCount(k) ==
    Cardinality({i \in 1..Len(k) : k[i] \notin SpaceSet /\ (i = 1 \/ k[i - 1] \in SpaceSet)})

(***************************************************************************)
(* Regular-expression pieces shared by the hint generators                 *)
(***************************************************************************)
\* the characters the fodder class [^"'.,] excludes
StopSet == {"\"", "'", ".", ","}

\* the first position >= i whose character is in X (Len(s)+1 if none):
\* the end of the greedy run [^X]* started at i
RunEndNot(s, i, X) == Min({k \in i..(Len(s) + 1) : k = Len(s) + 1 \/ s[k] \in X})

\* group(1) of   [C1]+["']?([^"'.,]+)["']?   matched at position e, or None.
\* [C1]+ is greedy; the group needs one character, so when the run of C1 is
\* followed by nothing the group can take, the run gives its last character
\* back to the group (C1 is whitespace or ':', which the group's class holds).
FodderTail(s, e, C1) ==
    IF ~(e >= 1 /\ e <= Len(s) /\ s[e] \in C1) THEN None
    ELSE LET p == RunEnd(s, e, C1)
         IN  IF p < Len(s) /\ s[p] \in QuoteSet /\ s[p + 1] \notin StopSet
                 THEN Slice(s, p + 1, RunEndNot(s, p + 1, StopSet))
             ELSE IF p <= Len(s) /\ s[p] \notin StopSet
                 THEN Slice(s, p, RunEndNot(s, p, StopSet))
             ELSE IF p - e >= 2 THEN Slice(s, p - 1, p)
             ELSE None

\* re.search(lit + tail): group(1) of the leftmost match of the literal `lit`
\* (found in `low`, the text the literal is compared with) followed by the
\* tail  [C1]+["']?([^"'.,]+) ; the group is cut from s.  `opt` is an
\* optional literal between the two (the \.? of def\.?).
SearchLitTail(s, low, lit, opt, C1) ==
    LET After(i) == IF opt # << >> /\ MatchAt(low, i + Len(lit), opt)
                    THEN i + Len(lit) + Len(opt) ELSE i + Len(lit)
        starts == {i \in 1..Len(s) : MatchAt(low, i, lit) /\ FodderTail(s, After(i), C1) # None}
    IN  IF starts = {} THEN None ELSE FodderTail(s, After(Min(starts)), C1)

(***************************************************************************)
(* EnhancedHintGenerator: the regex path                                   *)
(***************************************************************************)
\* f"Definition: '{definitions[0]}'" and f"Definitions: '{...}' and '{...}'"
FormatDefinitions(defs) ==
    IF Len(defs) = 1 THEN <<"D","e","f","i","n","i","t","i","o","n",":"," ","'">> \o defs[1] \o <<"'">>
    ELSE <<"D","e","f","i","n","i","t","i","o","n","s",":"," ","'">> \o defs[1] \o <<"'"," ","a","n","d"," ","'">> \o defs[2] \o <<"'">>

_generate_definition_hint(full_text, paragraphs, defs, auth) ==
    LET low == lower(full_text)
        m1  == SearchLitTail(full_text, low, <<"d","e","f","i","n","i","t","i","o","n">>, << >>, SpaceSet \cup {":"})
        m2  == SearchLitTail(full_text, low, <<"d","e","f">>, <<".">>, SpaceSet \cup {":"})
    IN  IF Len(defs) > 0 THEN FormatDefinitions(defs)
        ELSE IF m1 # None THEN <<"D","e","f","i","n","i","t","i","o","n",":"," ","'">> \o strip(m1) \o <<"'">>
        ELSE IF m2 # None THEN <<"D","e","f","i","n","i","t","i","o","n",":"," ","'">> \o strip(m2) \o <<"'">>
        ELSE IF Contains(low, <<"d","o","u","b","l","e"," ","d","e","f","i","n","i","t","i","o","n">>) \/ Contains(low, <<"t","w","o"," ","d","e","f","i","n","i","t","i","o","n","s">>)
            THEN <<"T","h","i","s"," ","i","s"," ","a"," ","d","o","u","b","l","e"," ","d","e","f","i","n","i","t","i","o","n"," ","-"," ","f","i","n","d"," ","a"," ","w","o","r","d"," ","w","i","t","h"," ","t","w","o"," ","m","e","a","n","i","n","g","s">>
        ELSE <<"L","o","o","k"," ","f","o","r"," ","t","h","e"," ","d","e","f","i","n","i","t","i","o","n"," ","a","t"," ","t","h","e"," ","s","t","a","r","t"," ","o","r"," ","e","n","d"," ","o","f"," ","t","h","e"," ","c","l","u","e">>

\* primary_indicators, in dict order
primary_indicators == <<
    [name |-> <<"a","n","a","g","r","a","m">>, indicators |-> << <<"a","n","a","g","r","a","m">> >>],
    [name |-> <<"h","i","d","d","e","n">>, indicators |-> << <<"h","i","d","d","e","n"," ","w","o","r","d">>, <<"h","i","d","d","e","n"," ","i","n">>, <<"c","o","n","c","e","a","l","e","d"," ","i","n">> >>],
    [name |-> <<"r","e","v","e","r","s","a","l">>, indicators |-> << <<"r","e","v","e","r","s","a","l">>, <<"r","e","v","e","r","s","e","d">> >>],
    [name |-> <<"c","o","n","t","a","i","n","e","r">>, indicators |-> << <<"c","o","n","t","a","i","n","e","r">>, <<"e","n","v","e","l","o","p","e">> >>],
    [name |-> <<"h","o","m","o","p","h","o","n","e">>, indicators |-> << <<"h","o","m","o","p","h","o","n","e">>, <<"s","o","u","n","d","s"," ","l","i","k","e">>, <<"w","e"," ","h","e","a","r">> >>],
    [name |-> <<"d","o","u","b","l","e","_","d","e","f","i","n","i","t","i","o","n">>, indicators |-> << <<"d","o","u","b","l","e"," ","d","e","f","i","n","i","t","i","o","n">>, <<"t","w","o"," ","d","e","f","i","n","i","t","i","o","n","s">> >>],
    [name |-> <<"d","e","l","e","t","i","o","n">>, indicators |-> << <<"d","e","l","e","t","i","o","n">> >>],
    [name |-> <<"s","p","o","o","n","e","r","i","s","m">>, indicators |-> << <<"s","p","o","o","n","e","r","i","s","m">> >>] >>

\* the first technique of primary_indicators one of whose phrases is in the text, or None
PrimaryTechnique(text_lower) ==
    LET ks == {k \in 1..Len(primary_indicators) :
                  ContainsAny(text_lower, primary_indicators[k].indicators)}
    IN  IF ks = {} THEN None ELSE primary_indicators[Min(ks)].name

\* score of technique k: the word counts of its keywords found in the text
RECURSIVE SumWordCounts(_, _)
SumWordCounts(kws, text_lower) ==
    IF Len(kws) = 0 THEN 0
    ELSE (IF Contains(text_lower, Head(kws)) THEN WordCount(Head(kws)) ELSE 0)
         + SumWordCounts(Tail(kws), text_lower)

TechniqueScore(k, text_lower) == SumWordCounts(WORDPLAY_TECHNIQUES[k].keywords, text_lower)

DeletionMinScore == 3
CharadeMinScore == 4

\* technique_scores without the low-confidence filter
TechniqueCandidatesUnfiltered(text_lower) ==
    {k \in 1..Len(WORDPLAY_TECHNIQUES) : TechniqueScore(k, text_lower) > 0}

\* technique_scores after the low-confidence filter: the indices that remain
TechniqueCandidates(text_lower) ==
    {k \in 1..Len(WORDPLAY_TECHNIQUES) :
        /\ TechniqueScore(k, text_lower) > 0
        /\ ~(WORDPLAY_TECHNIQUES[k].name = <<"d","e","l","e","t","i","o","n">>
             /\ TechniqueScore(k, text_lower) < DeletionMinScore)
        /\ ~(WORDPLAY_TECHNIQUES[k].name = <<"c","h","a","r","a","d","e">>
             /\ TechniqueScore(k, text_lower) < CharadeMinScore)}

\* the highest score, the last in dict order among equals
TopTechniqueLastOnTie(text_lower) ==
    LET c == TechniqueCandidates(text_lower)
    IN  IF c = {} THEN 0
        ELSE Max({k \in c : \A j \in c : TechniqueScore(j, text_lower) <= TechniqueScore(k, text_lower)})

\* sorted(..., key=lambda x: -x[1])[0]: the highest score, the first in dict
\* order among equals (the sort is stable); 0 when nothing remains
TopTechnique(text_lower) ==
    LET c == TechniqueCandidates(text_lower)
    IN  IF c = {} THEN 0
        ELSE Min({k \in c : \A j \in c : TechniqueScore(j, text_lower) <= TechniqueScore(k, text_lower)})

\* _generate_technique_hint scoring the keywords before it looks for the
\* primary indicators
_generate_technique_hint_scores_first(full_text, paragraphs) ==
    LET text_lower == lower(full_text)
        primary == PrimaryTechnique(text_lower)
        top == TopTechnique(text_lower)
    IN  IF top # 0 THEN WORDPLAY_TECHNIQUES[top].hint
        ELSE IF primary # None THEN TechHint(primary)
        ELSE <<"A","n","a","l","y","z","e"," ","h","o","w"," ","t","h","e"," ","c","l","u","e"," ","b","r","e","a","k","s"," ","d","o","w","n"," ","i","n","t","o"," ","d","e","f","i","n","i","t","i","o","n"," ","a","n","d"," ","w","o","r","d","p","l","a","y">>

_generate_technique_hint(full_text, paragraphs) ==
    LET text_lower == lower(full_text)
        primary == PrimaryTechnique(text_lower)
        top == TopTechnique(text_lower)
    IN  IF primary # None THEN TechHint(primary)
        ELSE IF top = 0 THEN <<"A","n","a","l","y","z","e"," ","h","o","w"," ","t","h","e"," ","c","l","u","e"," ","b","r","e","a","k","s"," ","d","o","w","n"," ","i","n","t","o"," ","d","e","f","i","n","i","t","i","o","n"," ","a","n","d"," ","w","o","r","d","p","l","a","y">>
        ELSE WORDPLAY_TECHNIQUES[top].hint

\* ['"]([^'"]+)['"] matched at q: the position of the closing quote, or 0
QuotedEnd(s, q) ==
    IF ~(q >= 1 /\ q <= Len(s) /\ s[q] \in QuoteSet) THEN 0
    ELSE LET q2 == RunEndNot(s, q + 1, QuoteSet)
         IN  IF q2 > q + 1 /\ q2 <= Len(s) THEN q2 ELSE 0

\* re.findall(r"['\"]([^'\"]+)['\"]", s) from position pos on: the groups of
\* the successive non-overlapping matches
RECURSIVE FindQuoted(_, _)
FindQuoted(s, pos) ==
    LET qs == {q \in pos..Len(s) : QuotedEnd(s, q) # 0}
        q  == Min(qs)
    IN  IF qs = {} THEN << >>
        ELSE << Slice(s, q + 1, QuotedEnd(s, q)) >> \o FindQuoted(s, QuotedEnd(s, q) + 1)

\* str.isupper(): a cased character, and no lowercase one
isupper(s) == /\ \E i \in 1..Len(s) : s[i] \in UpperSet
              /\ \A i \in 1..Len(s) : s[i] \notin LowerSet

\* [ref for ref in clue_refs if len(ref) > 1 and not ref.isupper()]
ClueRefs(full_text) == SelectSeq(FindQuoted(full_text, 1), LAMBDA ref : Len(ref) > 1 /\ ~isupper(ref))

\* the words w1 \s+ w2 \s+ ... matched at i: the position after the last, or 0
RECURSIVE PhraseEnd(_, _, _)
PhraseEnd(s, i, words) ==
    IF ~MatchAt(s, i, Head(words)) THEN 0
    ELSE IF Len(words) = 1 THEN i + Len(Head(words))
    ELSE LET e == i + Len(Head(words))
         IN  IF e <= Len(s) /\ s[e] \in SpaceSet
             THEN PhraseEnd(s, RunEnd(s, e, SpaceSet), Tail(words))
             ELSE 0

\* one of the phrases matched at i: the position after it, or 0 (the phrases
\* of one alternation never match at the same place with different ends that
\* matter: the first that matches is taken, as the regex does)
AnyPhraseEnd(s, i, phrases) ==
    LET ks == {k \in 1..Len(phrases) : PhraseEnd(s, i, phrases[k]) # 0}
    IN  IF ks = {} THEN 0 ELSE PhraseEnd(s, i, phrases[Min(ks)])

\* re.search(phrase + tail): group of the leftmost match of one of the
\* phrases followed by  \s+["']?([^"'.,]+) , or None
SearchPhraseFodder(s, phrases) ==
    LET starts == {i \in 1..Len(s) : /\ AnyPhraseEnd(s, i, phrases) # 0
                                     /\ FodderTail(s, AnyPhraseEnd(s, i, phrases), SpaceSet) # None}
    IN  IF starts = {} THEN None
        ELSE FodderTail(s, AnyPhraseEnd(s, Min(starts), phrases), SpaceSet)

\* (?:indicated\s+by|signalled\s+by|flagged\s+by)\s+['"]([^'"]+)['"]
\* matched at i: the position of the opening quote, or 0
IndicatedByAt(s, i) ==
    LET e == AnyPhraseEnd(s, i, << <<<<"i","n","d","i","c","a","t","e","d">>, <<"b","y">>>>, <<<<"s","i","g","n","a","l","l","e","d">>, <<"b","y">>>>,
                                   <<<<"f","l","a","g","g","e","d">>, <<"b","y">>>> >>)
    IN  IF e # 0 /\ e <= Len(s) /\ s[e] \in SpaceSet
           /\ QuotedEnd(s, RunEnd(s, e, SpaceSet)) # 0
        THEN RunEnd(s, e, SpaceSet) ELSE 0

\* ['"]([^'"]+)['"]\s+(?:w1|w2|...) matched at the quote q
QuotedThenAt(s, q, phrases) ==
    /\ QuotedEnd(s, q) # 0
    /\ QuotedEnd(s, q) + 1 <= Len(s)
    /\ s[QuotedEnd(s, q) + 1] \in SpaceSet
    /\ AnyPhraseEnd(s, RunEnd(s, QuotedEnd(s, q) + 1, SpaceSet), phrases) # 0

IndicatorVerbs == << <<<<"i","n","d","i","c","a","t","e","s">>>>, <<<<"i","n","d","i","c","a","t","i","n","g">>>>, <<<<"s","i","g","n","a","l","s">>>>,
                     <<<<"i","s">>, <<"t","h","e">>, <<"a","n","a","g","r","a","m">>, <<"i","n","d","i","c","a","t","o","r">>>>,
                     <<<<"i","s">>, <<"t","h","e">>, <<"i","n","d","i","c","a","t","o","r">>>> >>

\* indicator_match.group(1) of the two searches, or None
Indicator(text_lower) ==
    LET a == {i \in 1..Len(text_lower) : IndicatedByAt(text_lower, i) # 0}
        b == {q \in 1..Len(text_lower) : QuotedThenAt(text_lower, q, IndicatorVerbs)}
        qa == IndicatedByAt(text_lower, Min(a))
    IN  IF a # {} THEN Slice(text_lower, qa + 1, QuotedEnd(text_lower, qa))
        ELSE IF b # {} THEN Slice(text_lower, Min(b) + 1, QuotedEnd(text_lower, Min(b)))
        ELSE None

ContainerWords == << <<"i","n">>, <<"i","n","s","i","d","e">>, <<"w","i","t","h","i","n">>, <<"a","r","o","u","n","d">>, <<"o","u","t","s","i","d","e">>, <<"h","o","l","d","i","n","g">>, <<"c","o","n","t","a","i","n","i","n","g">> >>

\* container_match is not None: some match of
\*   ['"]?([^'"]+)['"]?\s+(?:in|inside|...)\s+['"]?([^'"]+)['"]?
\* exists.  Around the keyword at w: whitespace before it, preceded (after an
\* optional quote) by a non-quote character; whitespace after it, followed
\* (after an optional quote) by a non-quote character.
ContainerMatch(s) ==
    \E w \in 2..Len(s) : \E k \in 1..Len(ContainerWords) :
        LET x == w + Len(ContainerWords[k])
            r == RunStart(s, w, SpaceSet)
            y == RunEnd(s, x, SpaceSet)
        IN  /\ MatchAt(s, w, ContainerWords[k])
            /\ s[w - 1] \in SpaceSet
            /\ \/ w - r >= 2
               \/ r >= 2 /\ s[r - 1] \notin QuoteSet
               \/ r >= 3 /\ s[r - 1] \in QuoteSet /\ s[r - 2] \notin QuoteSet
            /\ x <= Len(s) /\ s[x] \in SpaceSet
            /\ \/ y - x >= 2
               \/ y <= Len(s) /\ s[y] \notin QuoteSet
               \/ y + 1 <= Len(s) /\ s[y] \in QuoteSet /\ s[y + 1] \notin QuoteSet

\* group(1) or group(2) of the leftmost match of an alternation whose first
\* branch is  ['"]([^'"]+)['"]\s+<verb>  and whose second is
\* <phrase>\s+['"]?([^'".,]+)['"]? , or None
QuotedOrFodder(s, verb, phrases) ==
    LET Fod(i) == IF AnyPhraseEnd(s, i, phrases) = 0 THEN None
                  ELSE FodderTail(s, AnyPhraseEnd(s, i, phrases), SpaceSet)
        starts == {i \in 1..Len(s) : QuotedThenAt(s, i, << <<verb>> >>) \/ Fod(i) # None}
        i0 == Min(starts)
    IN  IF starts = {} THEN None
        ELSE IF QuotedThenAt(s, i0, << <<verb>> >>) THEN Slice(s, i0 + 1, QuotedEnd(s, i0))
        ELSE Fod(i0)

\* clue_refs[:n]
Take(xs, n) == IF Len(xs) <= n THEN xs ELSE SubSeq(xs, 1, n)

_generate_structural_hint(full_text, paragraphs, defs) ==
    LET text_lower == lower(full_text)
        clue_refs == ClueRefs(full_text)
        indicator == Indicator(text_lower)
        anagram_fodder ==
            LET m == SearchPhraseFodder(text_lower, << <<<<"a","n","a","g","r","a","m">>, <<"o","f">>>> >>)
            IN  IF m = None THEN None ELSE strip(m)
        container_match == ContainerMatch(text_lower)
        \* the source tests `if anagram_fodder`: an empty str counts as absent
        has_fodder == anagram_fodder # None /\ anagram_fodder # << >>
        reversal_match == QuotedOrFodder(text_lower, <<"r","e","v","e","r","s","e","d">>, << <<<<"r","e","v","e","r","s","a","l">>, <<"o","f">>>> >>)
        hidden_match == QuotedOrFodder(text_lower, <<"c","o","n","t","a","i","n","s">>,
                                       << <<<<"h","i","d","d","e","n">>, <<"i","n">>>>, <<<<"h","i","d","d","e","n">>, <<"w","i","t","h","i","n">>>> >>)
        del_type ==
            IF ContainsAny(text_lower, << <<"h","e","a","d","l","e","s","s">>, <<"b","e","h","e","a","d","e","d">>, <<"t","o","p","l","e","s","s">> >>) THEN <<"f","i","r","s","t">>
            ELSE IF ContainsAny(text_lower, << <<"e","n","d","l","e","s","s">>, <<"c","u","r","t","a","i","l","e","d">>, <<"d","o","c","k","e","d">> >>) THEN <<"l","a","s","t">>
            ELSE IF ContainsAny(text_lower, << <<"h","e","a","r","t","l","e","s","s">>, <<"g","u","t","t","e","d">> >>) THEN <<"m","i","d","d","l","e">>
            ELSE None
    IN  IF Contains(text_lower, <<"a","n","a","g","r","a","m">>) THEN
            IF indicator # None /\ has_fodder
                THEN <<"'">> \o indicator \o <<"'"," ","i","s"," ","t","h","e"," ","a","n","a","g","r","a","m"," ","i","n","d","i","c","a","t","o","r"," ","-"," ","r","e","a","r","r","a","n","g","e"," ","'">> \o anagram_fodder \o <<"'">>
            ELSE IF indicator # None
                THEN <<"'">> \o indicator \o <<"'"," ","i","s"," ","t","h","e"," ","a","n","a","g","r","a","m"," ","i","n","d","i","c","a","t","o","r"," ","-"," ","f","i","n","d"," ","t","h","e"," ","l","e","t","t","e","r","s"," ","t","o"," ","r","e","a","r","r","a","n","g","e">>
            ELSE IF has_fodder
                THEN <<"R","e","a","r","r","a","n","g","e"," ","t","h","e"," ","l","e","t","t","e","r","s"," ","o","f"," ","'">> \o anagram_fodder \o <<"'">>
            ELSE IF Len(clue_refs) > 0
                THEN <<"T","h","i","s"," ","i","s"," ","a","n"," ","a","n","a","g","r","a","m"," ","-"," ","r","e","a","r","r","a","n","g","e"," ","l","e","t","t","e","r","s"," ","f","r","o","m"," ","'">> \o clue_refs[1] \o <<"'">>
            ELSE <<"T","h","i","s"," ","i","s"," ","a","n"," ","a","n","a","g","r","a","m"," ","-"," ","f","i","n","d"," ","t","h","e"," ","i","n","d","i","c","a","t","o","r"," ","a","n","d"," ","t","h","e"," ","l","e","t","t","e","r","s"," ","t","o"," ","r","e","a","r","r","a","n","g","e">>
        ELSE IF Contains(text_lower, <<"h","i","d","d","e","n">>) THEN
            IF hidden_match # None
                THEN <<"T","h","e"," ","a","n","s","w","e","r"," ","i","s"," ","h","i","d","d","e","n"," ","i","n"," ","t","h","e"," ","l","e","t","t","e","r","s"," ","o","f"," ","'">> \o hidden_match \o <<"'">>
            ELSE IF Len(clue_refs) > 0
                THEN <<"T","h","e"," ","a","n","s","w","e","r"," ","i","s"," ","h","i","d","d","e","n"," ","w","i","t","h","i","n"," ","'">> \o clue_refs[1] \o <<"'">>
            ELSE <<"T","h","e"," ","a","n","s","w","e","r"," ","i","s"," ","h","i","d","d","e","n"," ","w","i","t","h","i","n"," ","c","o","n","s","e","c","u","t","i","v","e"," ","l","e","t","t","e","r","s"," ","i","n"," ","t","h","e"," ","c","l","u","e">>
        ELSE IF Contains(text_lower, <<"r","e","v","e","r","s","a","l">>) \/ Contains(text_lower, <<"r","e","v","e","r","s","e","d">>) THEN
            IF reversal_match # None
                THEN <<"W","r","i","t","e"," ","'">> \o reversal_match \o <<"'"," ","b","a","c","k","w","a","r","d","s">>
            ELSE IF indicator # None
                THEN <<"'">> \o indicator \o <<"'"," ","s","i","g","n","a","l","s"," ","r","e","v","e","r","s","a","l">>
            ELSE IF Len(clue_refs) > 0
                THEN <<"R","e","v","e","r","s","e"," ","'">> \o clue_refs[1] \o <<"'"," ","(","o","r"," ","w","h","a","t"," ","i","t"," ","r","e","p","r","e","s","e","n","t","s",")">>
            ELSE <<"R","e","v","e","r","s","e"," ","t","h","e"," ","l","e","t","t","e","r","s"," ","o","f"," ","a"," ","w","o","r","d"," ","f","r","o","m"," ","t","h","e"," ","c","l","u","e">>
        ELSE IF ContainsAny(text_lower, << <<"c","o","n","t","a","i","n","e","r">>, <<"e","n","v","e","l","o","p","e">>, <<"i","n","s","e","r","t","i","o","n">> >>) THEN
            IF container_match /\ Len(clue_refs) >= 2
                THEN <<"P","u","t"," ","'">> \o clue_refs[1] \o <<"'"," ","i","n","s","i","d","e","/","a","r","o","u","n","d"," ","'">> \o clue_refs[2] \o <<"'">>
            ELSE IF Len(clue_refs) >= 2
                THEN <<"C","o","m","b","i","n","e"," ","'">> \o clue_refs[1] \o <<"'"," ","a","n","d"," ","'">> \o clue_refs[2] \o <<"'"," ","-"," ","o","n","e"," ","g","o","e","s"," ","i","n","s","i","d","e"," ","t","h","e"," ","o","t","h","e","r">>
            ELSE <<"O","n","e"," ","p","a","r","t"," ","g","o","e","s"," ","i","n","s","i","d","e"," ","o","r"," ","a","r","o","u","n","d"," ","a","n","o","t","h","e","r">>
        ELSE IF Contains(text_lower, <<"h","o","m","o","p","h","o","n","e">>) \/ Contains(text_lower, <<"s","o","u","n","d","s"," ","l","i","k","e">>) THEN
            IF indicator # None /\ Len(clue_refs) > 0
                THEN <<"'">> \o indicator \o <<"'"," ","s","i","g","n","a","l","s"," ","a"," ","h","o","m","o","p","h","o","n","e"," ","-"," ","'">> \o clue_refs[1] \o <<"'"," ","s","o","u","n","d","s"," ","l","i","k","e"," ","t","h","e"," ","a","n","s","w","e","r">>
            ELSE IF Len(clue_refs) > 0
                THEN <<"'">> \o clue_refs[1] \o <<"'"," ","s","o","u","n","d","s"," ","l","i","k","e"," ","t","h","e"," ","a","n","s","w","e","r"," ","w","h","e","n"," ","s","p","o","k","e","n">>
            ELSE <<"T","h","e"," ","a","n","s","w","e","r"," ","s","o","u","n","d","s"," ","l","i","k","e"," ","a","n","o","t","h","e","r"," ","w","o","r","d">>
        ELSE IF Contains(text_lower, <<"d","o","u","b","l","e"," ","d","e","f","i","n","i","t","i","o","n">>) \/ Contains(text_lower, <<"t","w","o"," ","d","e","f","i","n","i","t","i","o","n","s">>) THEN
            IF Len(defs) >= 2
                THEN <<"F","i","n","d"," ","a"," ","w","o","r","d"," ","m","e","a","n","i","n","g"," ","b","o","t","h"," ","'">> \o defs[1] \o <<"'"," ","a","n","d"," ","'">> \o defs[2] \o <<"'">>
            ELSE <<"F","i","n","d"," ","a"," ","w","o","r","d"," ","w","i","t","h"," ","t","w","o"," ","d","i","f","f","e","r","e","n","t"," ","m","e","a","n","i","n","g","s"," ","t","h","a","t"," ","m","a","t","c","h"," ","t","h","e"," ","c","l","u","e">>
        ELSE IF ContainsAny(text_lower, << <<"c","h","a","r","a","d","e">>, <<"f","o","l","l","o","w","e","d"," ","b","y">>, <<"p","l","u","s">>, <<" ","+"," ">> >>) THEN
            IF Len(clue_refs) >= 2
                THEN <<"J","o","i","n"," ","t","h","e"," ","p","a","r","t","s",":"," ","'">> \o JoinWith(Take(clue_refs, 3), <<"'"," ","+"," ","'">>) \o <<"'">>
            ELSE <<"J","o","i","n"," ","t","h","e"," ","w","o","r","d","p","l","a","y"," ","p","a","r","t","s"," ","t","o","g","e","t","h","e","r"," ","i","n"," ","s","e","q","u","e","n","c","e">>
        ELSE IF Contains(text_lower, <<"d","e","l","e","t","i","o","n">>)
                \/ ContainsAny(text_lower, << <<"h","e","a","d","l","e","s","s">>, <<"e","n","d","l","e","s","s">>, <<"h","e","a","r","t","l","e","s","s">>, <<"b","e","h","e","a","d","e","d">>, <<"c","u","r","t","a","i","l","e","d">> >>) THEN
            IF del_type # None /\ Len(clue_refs) > 0
                THEN <<"R","e","m","o","v","e"," ","t","h","e"," ">> \o del_type \o <<" ","l","e","t","t","e","r"," ","f","r","o","m"," ","'">> \o clue_refs[1] \o <<"'">>
            ELSE IF del_type # None
                THEN <<"R","e","m","o","v","e"," ","t","h","e"," ">> \o del_type \o <<" ","l","e","t","t","e","r"," ","f","r","o","m"," ","a"," ","w","o","r","d">>
            ELSE IF Len(clue_refs) > 0
                THEN <<"R","e","m","o","v","e"," ","l","e","t","t","e","r","(","s",")"," ","f","r","o","m"," ","'">> \o clue_refs[1] \o <<"'">>
            ELSE <<"R","e","m","o","v","e"," ","l","e","t","t","e","r","(","s",")"," ","f","r","o","m"," ","a"," ","w","o","r","d">>
        ELSE IF Len(clue_refs) >= 2
            THEN <<"W","o","r","k"," ","w","i","t","h"," ","'">> \o clue_refs[1] \o <<"'"," ","a","n","d"," ","'">> \o clue_refs[2] \o <<"'">>
        ELSE IF Len(clue_refs) = 1
            THEN <<"F","o","c","u","s"," ","o","n"," ","'">> \o clue_refs[1] \o <<"'"," ","i","n"," ","t","h","e"," ","c","l","u","e">>
        ELSE <<"B","r","e","a","k"," ","d","o","w","n"," ","t","h","e"," ","c","l","u","e"," ","i","n","t","o"," ","d","e","f","i","n","i","t","i","o","n"," ","a","n","d"," ","w","o","r","d","p","l","a","y"," ","p","a","r","t","s">>

\* re.findall(r'\b[A-Z]{2,}\b', s), as the start positions of the matches in
\* text order: a run of capitals between two word boundaries
CapsStarts(s) ==
    {i \in 1..Len(s) : /\ s[i] \in UpperSet
                       /\ (i = 1 \/ s[i - 1] \notin WordSet)
                       /\ RunEnd(s, i, UpperSet) - i >= 2
                       /\ (RunEnd(s, i, UpperSet) = Len(s) + 1
                           \/ s[RunEnd(s, i, UpperSet)] \notin WordSet)}

CapsWordAt(s, i) == Slice(s, i, RunEnd(s, i, UpperSet))

MinAnswerLen == 3

\* max(answer_candidates, key=len): the first of the longest, or None
LongestCapsWord(s) ==
    LET c == {i \in CapsStarts(s) : Len(CapsWordAt(s, i)) >= MinAnswerLen}
    IN  IF c = {} THEN None
        ELSE CapsWordAt(s, Min({i \in c : \A j \in c : Len(CapsWordAt(s, j)) <= Len(CapsWordAt(s, i))}))

StructureWords == << <<"p","l","u","s">>, <<"i","n">>, <<"a","r","o","u","n","d">>, <<"g","i","v","e","s">>, <<"m","a","k","e","s">>, <<"=">>, <<"+">> >>

StructureBonus == 2

\* score of a paragraph: its capitals words, plus 2 if a structural word is in it
ParaScore(para) ==
    Cardinality(CapsStarts(para))
    + (IF ContainsAny(lower(para), StructureWords) THEN StructureBonus ELSE 0)

\* best_para: the first paragraph of the highest score, if that score is
\* positive (the loop replaces the best only on a strictly higher score); 0 if none
BestPara(paragraphs) ==
    LET c == {k \in 1..Len(paragraphs) : ParaScore(paragraphs[k]) > 0}
    IN  IF c = {} THEN 0
        ELSE Min({k \in c : \A j \in c : ParaScore(paragraphs[j]) <= ParaScore(paragraphs[k])})

_generate_full_explanation(paragraphs, defs) ==
    LET full_text == JoinWith(paragraphs, <<" ">>)
        answer_word == LongestCapsWord(full_text)
        best == BestPara(paragraphs)
        explanation == strip(paragraphs[best])
        parts ==
            (IF answer_word # None THEN << <<"A","n","s","w","e","r",":"," ">> \o answer_word >> ELSE << >>)
            \o (IF Len(defs) > 0 THEN << FormatDefinitions(defs) >> ELSE << >>)
            \o (IF best # 0 /\ (Len(defs) = 0 \/ lower(explanation) # lower(defs[1]))
                THEN << <<"W","o","r","d","p","l","a","y",":"," ">> \o explanation >> ELSE << >>)
    IN  IF Len(parts) = 0
        THEN (IF Len(paragraphs) > 0 THEN JoinWith(paragraphs, <<" ">>) ELSE <<"N","o"," ","e","x","p","l","a","n","a","t","i","o","n"," ","a","v","a","i","l","a","b","l","e",".">>)
        ELSE JoinWith(parts, <<" ","|"," ">>)

_generate_hints_with_regex(full_text, paragraphs, defs, auth) ==
    << _generate_definition_hint(full_text, paragraphs, defs, auth),
       _generate_technique_hint(full_text, paragraphs),
       _generate_structural_hint(full_text, paragraphs, defs),
       _generate_full_explanation(paragraphs, defs) >>

(***************************************************************************)
(* The Claude path: the HTTP response and what the source reads from it    *)
(***************************************************************************)
HintKeys == <<"hint1", "hint2", "hint3", "hint4">>

\* json.loads results: a dict (its hint fields; a JSON null is None) or
\* anything else (a list, a str, a number, null)
PyDict(f) == [type |-> "dict", fields |-> f]
PyOther == [type |-> "other", fields |-> << >>]
NoJson == [type |-> "none", fields |-> << >>]

\* The text of a content block as a sequence of tokens: the fence markers
\* ```json and ```, whitespace, a JSON document, any other prose
Tok(t) == [t |-> t, v |-> NoJson]
JsonTok(v) == [t |-> "json", v |-> v]

\* text.split(marker)[1]: what follows the first marker, up to the next one
AfterFirst(text, marker) ==
    LET i == Min({k \in 1..Len(text) : text[k].t = marker})
        rest == Slice(text, i + 1, Len(text) + 1)
        js == {k \in 1..Len(rest) : rest[k].t = marker}
    IN  IF js = {} THEN rest ELSE Slice(rest, 1, Min(js))

\* text.split(marker)[0]: what precedes the first marker
BeforeFirst(text, marker) ==
    LET js == {k \in 1..Len(text) : text[k].t = marker}
    IN  IF js = {} THEN text ELSE Slice(text, 1, Min(js))

HasTok(text, marker) == \E k \in 1..Len(text) : text[k].t = marker

\* the text handed to json.loads: the body of the first fenced block, if any
Unfence(text) ==
    IF HasTok(text, "fence_json") THEN BeforeFirst(AfterFirst(text, "fence_json"), "fence")
    ELSE IF HasTok(text, "fence") THEN BeforeFirst(AfterFirst(text, "fence"), "fence")
    ELSE text

\* json.loads(text.strip()): the value of the one JSON document that is all
\* of the stripped text, or NoJson (json.JSONDecodeError)
JsonLoads(text) ==
    LET ks == {k \in 1..Len(text) : text[k].t # "ws"}
    IN  IF ks # {} /\ Min(ks) = Max(ks) /\ text[Min(ks)].t = "json" THEN text[Min(ks)].v
        ELSE NoJson

\* hints_data.get(key, '')
DictGet(d, key) == IF key \in DOMAIN d THEN d[key] ELSE << >>

StatusOK == 200

\* What _generate_hints_with_claude returns once requests.post has returned
\* or raised: the four hints, or None
ClaudeHints(resp) ==
    IF resp.kind # "http" THEN None                       \* Timeout, any other exception
    ELSE IF resp.status # StatusOK THEN None
    ELSE IF resp.data.shape # "dict" THEN None             \* json() raises, or no .get
    ELSE IF Len(resp.data.content) = 0 THEN None            \* not data.get('content')
    ELSE IF ~resp.data.content[1].has_text THEN None        \* json.loads('') raises
    ELSE LET hints_data == JsonLoads(Unfence(resp.data.content[1].text))
         IN  IF hints_data.type # "dict" THEN None          \* JSONDecodeError, or no .get
             ELSE [k \in 1..Len(HintKeys) |-> DictGet(hints_data.fields, HintKeys[k])]

(***************************************************************************)
(* The responses and the inputs the model draws from                       *)
(***************************************************************************)
ObjFull == PyDict([k \in {"hint1", "hint2", "hint3", "hint4"} |->
              IF k = "hint1" THEN <<"D","e","f","i","n","i","t","i","o","n"," ","h","i","n","t">> ELSE IF k = "hint2" THEN <<"W","o","r","d","p","l","a","y"," ","h","i","n","t">>
              ELSE IF k = "hint3" THEN <<"C","o","n","s","t","r","u","c","t","i","o","n"," ","h","i","n","t">> ELSE <<"F","u","l","l"," ","e","x","p","l","a","n","a","t","i","o","n">>])
ObjPartial == PyDict([k \in {"hint1", "hint4"} |-> IF k = "hint1" THEN <<"h","1">> ELSE <<"h","4">>])
ObjEmpty == PyDict(<< >>)
ObjNull == PyDict([k \in {"hint1", "hint2", "hint3", "hint4"} |-> IF k = "hint1" THEN None ELSE <<"h">>])

ResponseTexts == {
    << JsonTok(ObjFull) >>,
    << Tok("prose"), Tok("fence_json"), Tok("ws"), JsonTok(ObjFull), Tok("ws"), Tok("fence"), Tok("prose") >>,
    << Tok("fence"), JsonTok(ObjPartial), Tok("fence") >>,
    << Tok("fence"), Tok("prose"), JsonTok(ObjFull), Tok("fence") >>,
    << Tok("ws"), JsonTok(ObjEmpty) >>,
    << JsonTok(ObjNull) >>,
    << JsonTok(PyOther) >>,
    << JsonTok(ObjFull), Tok("prose") >>,
    << Tok("prose") >>,
    << >> }

ModelName == <<"c","l","a","u","d","e","-","s","o","n","n","e","t","-","4","-","2","0","2","5","0","5","1","4">>

NoData == [shape |-> "none", content |-> << >>,
           usage |-> [input_tokens |-> 0, output_tokens |-> 0], model |-> << >>]

Responses ==
    { [kind |-> k, status |-> 0, data |-> NoData] : k \in {"timeout", "exception"} }
    \cup { [kind |-> "http", status |-> s, data |-> NoData] : s \in {500, 429} }
    \cup { [kind |-> "http", status |-> StatusOK, data |-> [NoData EXCEPT !.shape = sh]] :
             sh \in {"invalid", "nondict"} }
    \cup { [kind |-> "http", status |-> StatusOK,
            data |-> [shape |-> "dict", content |-> c,
                      usage |-> [input_tokens |-> 100, output_tokens |-> 50], model |-> ModelName]] :
             c \in { << >>, << [has_text |-> FALSE, text |-> << >>] >> } }
    \cup { [kind |-> "http", status |-> StatusOK,
            data |-> [shape |-> "dict", content |-> << [has_text |-> TRUE, text |-> t] >>,
                      usage |-> [input_tokens |-> 100, output_tokens |-> 50], model |-> ModelName]] :
             t \in ResponseTexts }
    \cup { [kind |-> "http", status |-> StatusOK,
            data |-> [shape |-> "dict", content |-> << [has_text |-> TRUE, text |-> << JsonTok(ObjFull) >>] >>,
                      usage |-> [input_tokens |-> 200, output_tokens |-> 80], model |-> ModelName]] }

\* explanation paragraphs of the generator's state machine
ParagraphPool == << <<"A","n"," ","a","n","a","g","r","a","m"," ","o","f"," ","L","A","T","E"," ","g","i","v","e","s"," ","a"," ","w","o","r","d"," ","m","e","a","n","i","n","g"," ","o","l","d",".">>,
                    <<"S","e","e"," ","'","M","a","d"," ","R","I","D","E","'"," ","-"," ","\"","d","i","r","e","\""," ","i","s"," ","h","i","d","d","e","n"," ","i","n"," ","i","t">> >>

\* the longest hint_paragraphs list a call is given
MaxParagraphs == 2

RECURSIVE SeqsUpTo(_, _)
\* the sequences of at most n elements of S
SeqsUpTo(S, n) ==
    IF n = 0 THEN { << >> }
    ELSE LET shorter == SeqsUpTo(S, n - 1)
         IN  shorter \cup { Append(p, x) : p \in {q \in shorter : Len(q) = n - 1}, x \in S }

ParagraphLists == SeqsUpTo({ParagraphPool[i] : i \in 1..Len(ParagraphPool)}, MaxParagraphs)

\* definitions: the default None, or the list the scraper extracted
DefinitionLists == { None, << >>, << <<"o","l","d">> >>, << <<"c","r","u","e","l">>, <<"u","n","k","i","n","d">> >> }

\* (clue_text, answer) as the scraper passes them: clue.get(...) may be None
ClueContexts == { <<None, None>>, <<<<"T","e","r","r","i","b","l","e"," ","r","i","d","e"," ","t","o"," ","t","r","a","v","e","l"," ","(","4",")">>, None>>,
                  <<<<"T","e","r","r","i","b","l","e"," ","r","i","d","e"," ","t","o"," ","t","r","a","v","e","l"," ","(","4",")">>, <<"D","I","R","E">>>> }

\* os.environ.get('ANTHROPIC_API_KEY'): unset, set to '', set to a key
ApiKeys == { None, << >>, <<"t","e","s","t","-","k","e","y">> }

\* the author the scraper detected and passes on
Authors == { <<"g","e","n","e","r","i","c">>, <<"p","e","t","e","r","o">> }

\* explanation paragraphs the regex path is applied to on its own
RegexParagraphPool == { <<"T","h","i","s"," ","i","s"," ","a","n"," ","a","n","a","g","r","a","m"," ","-"," ","s","e","e"," ","'","M","a","d"," ","R","I","D","E","'"," ","h","e","r","e">>,
                        <<"d","e","f","i","n","i","t","i","o","n",":"," ","G","O","D"," ","i","s"," ","a"," ","d","e","i","t","y">>,
                        <<"A","n"," ","a","n","a","g","r","a","m"," ","o","f"," ","L","A","T","E"," ","g","i","v","e","s"," ","a"," ","w","o","r","d"," ","m","e","a","n","i","n","g"," ","o","l","d",".">>,
                        <<"D","I","R","E"," ","m","e","a","n","s"," ","\"","t","o"," ","t","r","a","v","e","l","\""," ","-"," ","a","n"," ","a","n","a","g","r","a","m"," ","o","f"," ","R","I","D","E",".">>,
                        <<"T","h","e"," ","d","e","f","i","n","i","t","i","o","n"," ","i","s"," ","\"","t","o"," ","t","r","a","v","e","l","\"",".">>,
                        <<"R","e","v","e","r","s","a","l"," ","o","f"," ","'","E","v","i","l"," ","D","O","G","'"," ","h","e","r","e">>,
                        <<"R","I","D","E"," ","r","e","a","r","r","a","n","g","e","d"," ","g","i","v","e","s"," ","D","I","R","E">>,
                        <<"S","o","m","e"," ","e","x","p","l","a","n","a","t","i","o","n"," ","t","e","x","t">>,
                        << >> }
RegexParagraphLists == SeqsUpTo(RegexParagraphPool, MaxParagraphs) \ { << >> }
RegexDefinitionLists == { << >>, << <<"o","l","d">> >>, << <<"c","r","u","e","l">>, <<"u","n","k","i","n","d">> >> }

\* page text and URLs the author detector is applied to: a page is a run of
\* at most MaxContentPieces fragments
MaxContentPieces == 2
ContentPieces == { <<"p","o","s","t","e","d"," ","a","t"," ","2",":","2","9"," ","a","m"," ","b","y"," ","P","e","t","e","r","O"," ">>, <<"w","h","a","t"," ","a"," ","t","r","e","a","t"," ","b","y"," ","V","i","n","y","l","."," ">>,
                   <<"V","e","r","l","a","i","n","e"," ","w","r","i","t","e","s",":"," ">>, <<"a","t"," ","h","o","m","e"," ","b","y"," ","b","o","b",","," ">>, <<"t","h","a","n","k","s"," ","P","e","t","e","r","O"," ">>,
                   <<"T","i","m","e","s"," ","2","9","0","0","0"," ">> }
RECURSIVE Concat(_)
Concat(parts) == IF Len(parts) = 0 THEN << >> ELSE parts[1] \o Concat(Tail(parts))
Contents == { Concat(p) : p \in SeqsUpTo(ContentPieces, MaxContentPieces) }
Urls == { <<"h","t","t","p","s",":","/","/","x",".","n","e","t","/","2","0","2","4","/","t","i","m","e","s","-","2","9","0","0","0">>, <<"h","t","t","p","s",":","/","/","x",".","n","e","t","/","a","u","t","h","o","r","/","v","i","n","y","l","/">>,
          <<"h","t","t","p","s",":","/","/","x",".","n","e","t","/","V","i","n","y","l","/","P","e","t","e","r","O">> }

\* explanation paragraphs the technique classifier is applied to on its own
TechniqueParagraphPool == { <<"T","h","i","s"," ","i","s"," ","a","n"," ","a","n","a","g","r","a","m"," ","o","f"," ","R","I","D","E">>, <<"A"," ","t","h","e","n"," ","B"," ","a","f","t","e","r"," ","C"," ","w","i","t","h"," ","D"," ","a","n","d"," ","E">>,
                            <<"A"," ","w","i","t","h"," ","B"," ","a","n","d"," ","C">>, <<"C","u","t"," ","i","t"," ","s","h","o","r","t">>, <<"C","u","t"," ","i","t"," ","s","h","o","r","t",","," ","l","o","s","i","n","g"," ","T">>,
                            <<"A"," ","d","o","u","b","l","e"," ","d","e","f","i","n","i","t","i","o","n">>, <<"P"," ","h","e","l","d"," ","b","y"," ","Q",","," ","p","a","r","t"," ","o","f"," ","R">>, <<"T","i","m","e","s"," ","2","9","0","0","0">>,
                            <<"P"," ","w","i","t","h","i","n"," ","Q">> }
TechniqueParagraphLists == SeqsUpTo(TechniqueParagraphPool, MaxParagraphs) \ { << >> }

(***************************************************************************)
(* State                                                                   *)
(***************************************************************************)
VARIABLES
    use_claude,           \* EnhancedHintGenerator.use_claude
    api_key,              \* EnhancedHintGenerator.api_key
    REQUESTS_AVAILABLE,   \* the module flag set by `import requests`
    total_api_calls,      \* usage attributes of the generator: << >> while the
    total_input_tokens,   \*   object has no such attribute, <<v>> once one has
    total_output_tokens,  \*   been assigned
    model_used,
    pc,                   \* "idle", "in_flight" (inside requests.post), "returned"
    hint_paragraphs,      \* the arguments of the call in progress or just returned
    definitions,
    clue_text,
    answer,
    author,
    request,              \* << >> or <<the POST of this call>>
    posts,                \* POSTs issued by this call
    response,             \* << >> or <<what requests.post returned or raised>>
    result,               \* << >> or the list the call returned
    url,                  \* detect_author's arguments and its result
    content,
    detected_author,
    puzzles,              \* the puzzles table: puzzle id -> status
    clues,                \* the clues table: clue id -> row
    hint_revisions,       \* the hint_revisions table
    id_seq,               \* the last ids the SERIAL columns of puzzles and clues gave out
    session,              \* the client's Flask session: << >> or <<its entries>>
    http_request,         \* << >> or <<the last HTTP request handled>>
    http_response,        \* << >> or <<the response to it>>
    executed,             \* the SQL statements cursor.execute was called with for it
    active_file,          \* PuzzleManager: << >> or <<the puzzle in active_puzzle.json>>
    archive_dir,          \* the archive directory: puzzle number -> the puzzle in its file
    manager_call          \* << >> or <<the last call on the manager and how it ended>>

vars == << use_claude, api_key, REQUESTS_AVAILABLE, total_api_calls, total_input_tokens,
           total_output_tokens, model_used, pc, hint_paragraphs, definitions, clue_text,
           answer, author, request, posts, response, result, url, content, detected_author,
           puzzles, clues, hint_revisions, id_seq, session, http_request, http_response, executed,
           active_file, archive_dir, manager_call >>

manager == << active_file, archive_dir, manager_call >>
config == << use_claude, api_key, REQUESTS_AVAILABLE >>
usage == << total_api_calls, total_input_tokens, total_output_tokens, model_used >>
call == << hint_paragraphs, definitions, clue_text, answer, author, request, posts, response, result >>
detector == << url, content, detected_author >>
database == << puzzles, clues, hint_revisions, id_seq >>
webapp == << puzzles, clues, hint_revisions, id_seq, session, http_request, http_response, executed >>

\* bool(x) of an Optional[str]
Truthy(x) == x # None /\ x # << >>

\* `if definitions is None: definitions = []`
DefinitionsOrEmpty(defs) == IF defs = None THEN << >> ELSE defs

DefaultHints == << <<"L","o","o","k"," ","a","t"," ","t","h","e"," ","c","l","u","e"," ","s","t","r","u","c","t","u","r","e",".">>, <<"I","d","e","n","t","i","f","y"," ","t","h","e"," ","w","o","r","d","p","l","a","y"," ","t","y","p","e",".">>,
                   <<"B","r","e","a","k"," ","d","o","w","n"," ","e","a","c","h"," ","p","a","r","t"," ","o","f"," ","t","h","e"," ","c","l","u","e",".">>, <<"N","o"," ","e","x","p","l","a","n","a","t","i","o","n"," ","a","v","a","i","l","a","b","l","e",".">> >>

MaxTokens == 1000
TimeoutSeconds == 15

\* the request _generate_hints_with_claude posts: the values its prompt embeds
ClaudeRequest(explanation, defs, ct, ans) ==
    [ definition_text |-> IF Len(defs) > 0 THEN defs[1] ELSE <<"u","n","k","n","o","w","n">>,
      clue_text |-> IF Truthy(ct) THEN ct ELSE <<"n","o","t"," ","p","r","o","v","i","d","e","d">>,
      answer |-> IF Truthy(ans) THEN ans ELSE <<"n","o","t"," ","p","r","o","v","i","d","e","d">>,
      explanation |-> explanation,
      model |-> ModelName, max_tokens |-> MaxTokens, timeout |-> TimeoutSeconds ]

NoCall ==
    /\ hint_paragraphs = << >> /\ definitions = None /\ clue_text = None /\ answer = None
    /\ author = <<"g","e","n","e","r","i","c">> /\ request = << >> /\ posts = 0 /\ response = << >> /\ result = << >>

NoDetector == url = << >> /\ content = << >> /\ detected_author = << >>

\* no PuzzleManager is part of the run
NoManager == active_file = << >> /\ archive_dir = << >> /\ manager_call = << >>

\* the web service is not part of the run: empty tables, no request
NoWebApp ==
    /\ puzzles = << >> /\ clues = << >> /\ hint_revisions = << >>
    /\ id_seq = [ puzzles |-> 0, clues |-> 0 ] /\ session = << >>
    /\ http_request = << >> /\ http_response = << >> /\ executed = << >>

\* __init__: use_claude from the argument, api_key from the environment; no
\* usage attribute is assigned
Init ==
    /\ NoManager
    /\ use_claude \in BOOLEAN
    /\ api_key \in ApiKeys
    /\ REQUESTS_AVAILABLE \in BOOLEAN
    /\ total_api_calls = << >> /\ total_input_tokens = << >>
    /\ total_output_tokens = << >> /\ model_used = << >>
    /\ pc = "idle"
    /\ NoCall
    /\ NoDetector
    /\ NoWebApp

\* the value of a usage attribute, 0 while it is not assigned
Val(attr) == IF attr = << >> THEN 0 ELSE attr[1]

\* GenerateHints with the empty-paragraphs test made after the Claude attempt
GenerateHintsGateFirst ==
    /\ pc = "idle"
    /\ \E paras \in ParagraphLists, defs \in DefinitionLists, ctx \in ClueContexts,
          auth \in Authors :
        /\ hint_paragraphs' = paras
        /\ definitions' = defs
        /\ clue_text' = ctx[1]
        /\ answer' = ctx[2]
        /\ author' = auth
        /\ response' = << >>
        /\ IF use_claude /\ Truthy(api_key) /\ REQUESTS_AVAILABLE THEN
               /\ request' = << ClaudeRequest(JoinWith(paras, <<" ">>), DefinitionsOrEmpty(defs),
                                              ctx[1], ctx[2]) >>
               /\ posts' = 1
               /\ result' = << >>
               /\ pc' = "in_flight"
           ELSE
               /\ result' = IF Len(paras) = 0 THEN DefaultHints
                            ELSE _generate_hints_with_regex(JoinWith(paras, <<" ">>), paras,
                                                            DefinitionsOrEmpty(defs), auth)
               /\ request' = << >> /\ posts' = 0
               /\ pc' = "returned"
    /\ UNCHANGED << webapp, manager, config, usage, detector >>

\* the gate with an empty ANTHROPIC_API_KEY taken for a credential
ClaudeEnabledEmptyKey == use_claude /\ api_key # None /\ REQUESTS_AVAILABLE

\* the test `self.use_claude and self.api_key and REQUESTS_AVAILABLE`
ClaudeEnabled == use_claude /\ Truthy(api_key) /\ REQUESTS_AVAILABLE

(***************************************************************************)
(* generate_hints, up to its return or to the POST it blocks in            *)
(***************************************************************************)
GenerateHints ==
    /\ pc = "idle"
    /\ \E paras \in ParagraphLists, defs \in DefinitionLists, ctx \in ClueContexts,
          auth \in Authors :
        /\ hint_paragraphs' = paras
        /\ definitions' = defs
        /\ clue_text' = ctx[1]
        /\ answer' = ctx[2]
        /\ author' = auth
        /\ response' = << >>
        /\ IF Len(paras) = 0 THEN
               /\ result' = DefaultHints
               /\ request' = << >> /\ posts' = 0
               /\ pc' = "returned"
           ELSE IF ClaudeEnabled THEN
               /\ request' = << ClaudeRequest(JoinWith(paras, <<" ">>), DefinitionsOrEmpty(defs),
                                              ctx[1], ctx[2]) >>
               /\ posts' = 1
               /\ result' = << >>
               /\ pc' = "in_flight"
           ELSE
               /\ result' = _generate_hints_with_regex(JoinWith(paras, <<" ">>), paras,
                                                       DefinitionsOrEmpty(defs), auth)
               /\ request' = << >> /\ posts' = 0
               /\ pc' = "returned"
    /\ UNCHANGED << webapp, manager, config, usage, detector >>

\* PostReturns falling back without the definitions
PostReturnsDropsDefinitions ==
    /\ pc = "in_flight"
    /\ \E resp \in Responses :
        /\ response' = << resp >>
        /\ result' = IF ClaudeHints(resp) # None THEN ClaudeHints(resp)
                     ELSE _generate_hints_with_regex(JoinWith(hint_paragraphs, <<" ">>), hint_paragraphs,
                                                     << >>, author)
    /\ pc' = "returned"
    /\ UNCHANGED << webapp, manager, config, usage, hint_paragraphs, definitions, clue_text, answer, author,
                    request, posts, detector >>

\* PostReturns counting the call before it knows the outcome
PostReturnsCountsFailures ==
    /\ pc = "in_flight"
    /\ \E resp \in Responses :
        /\ response' = << resp >>
        /\ result' = IF ClaudeHints(resp) # None THEN ClaudeHints(resp)
                     ELSE _generate_hints_with_regex(JoinWith(hint_paragraphs, <<" ">>), hint_paragraphs,
                                                     DefinitionsOrEmpty(definitions), author)
    /\ total_api_calls' = << Val(total_api_calls) + 1 >>
    /\ pc' = "returned"
    /\ UNCHANGED << webapp, manager, config, total_input_tokens, total_output_tokens, model_used, hint_paragraphs,
                    definitions, clue_text, answer, author, request, posts, detector >>

\* PostReturns sending the request once more after a failure
PostReturnsRetries ==
    /\ pc = "in_flight"
    /\ \E resp \in Responses :
        /\ response' = << resp >>
        /\ IF ClaudeHints(resp) = None /\ posts < 2
           THEN /\ posts' = posts + 1
                /\ result' = << >>
                /\ pc' = "in_flight"
           ELSE /\ posts' = posts
                /\ result' = IF ClaudeHints(resp) # None THEN ClaudeHints(resp)
                             ELSE _generate_hints_with_regex(JoinWith(hint_paragraphs, <<" ">>),
                                      hint_paragraphs, DefinitionsOrEmpty(definitions), author)
                /\ pc' = "returned"
    /\ UNCHANGED << webapp, manager, config, usage, hint_paragraphs, definitions, clue_text, answer, author,
                    request, detector >>

(***************************************************************************)
(* requests.post returns or raises; the rest of                            *)
(* _generate_hints_with_claude and of generate_hints                       *)
(***************************************************************************)
PostReturns ==
    /\ pc = "in_flight"
    /\ \E resp \in Responses :
        /\ response' = << resp >>
        /\ result' = IF ClaudeHints(resp) # None THEN ClaudeHints(resp)
                     ELSE _generate_hints_with_regex(JoinWith(hint_paragraphs, <<" ">>), hint_paragraphs,
                                                     DefinitionsOrEmpty(definitions), author)
    /\ pc' = "returned"
    /\ UNCHANGED << webapp, manager, config, usage, hint_paragraphs, definitions, clue_text, answer, author,
                    request, posts, detector >>

\* the caller keeps the list (clue['hints'] = ...) and the generator is idle
StoreHints ==
    /\ pc = "returned"
    /\ pc' = "idle"
    /\ hint_paragraphs' = << >> /\ definitions' = None /\ clue_text' = None /\ answer' = None
    /\ author' = <<"g","e","n","e","r","i","c">> /\ request' = << >> /\ posts' = 0 /\ response' = << >>
    /\ result' = << >>
    /\ UNCHANGED << webapp, manager, config, usage, detector >>

\* a caller assigns the usage attributes, as the tests do
AssignUsage ==
    /\ pc = "idle"
    /\ total_api_calls' = << 5 >>
    /\ total_input_tokens' = << 1000 >>
    /\ total_output_tokens' = << 500 >>
    /\ model_used' = << <<"t","e","s","t","-","m","o","d","e","l">> >>
    /\ UNCHANGED << webapp, manager, config, call, pc, detector >>

Next == GenerateHints \/ PostReturns \/ StoreHints \/ AssignUsage

Spec == Init /\ [][Next]_vars

(***************************************************************************)
(* Properties of the generator                                             *)
(***************************************************************************)
\* the response contract: HTTP 200, a JSON object whose content array has a
\* first block with a text that is, once unfenced, one JSON object
WellShaped(resp) ==
    /\ resp.kind = "http"
    /\ resp.status = 200
    /\ resp.data.shape = "dict"
    /\ Len(resp.data.content) > 0
    /\ resp.data.content[1].has_text
    /\ JsonLoads(Unfence(resp.data.content[1].text)).type = "dict"

Returned == pc = "returned"
Attempted == response # << >>
AttemptFailed == Attempted /\ ~WellShaped(response[1])

\* what the generator returns for the call's inputs when Claude is disabled
RegexResult ==
    _generate_hints_with_regex(JoinWith(hint_paragraphs, <<" ">>), hint_paragraphs,
                               IF definitions = None THEN << >> ELSE definitions, author)

GenericQuadruple == << <<"L","o","o","k"," ","a","t"," ","t","h","e"," ","c","l","u","e"," ","s","t","r","u","c","t","u","r","e",".">>, <<"I","d","e","n","t","i","f","y"," ","t","h","e"," ","w","o","r","d","p","l","a","y"," ","t","y","p","e",".">>,
                       <<"B","r","e","a","k"," ","d","o","w","n"," ","e","a","c","h"," ","p","a","r","t"," ","o","f"," ","t","h","e"," ","c","l","u","e",".">>, <<"N","o"," ","e","x","p","l","a","n","a","t","i","o","n"," ","a","v","a","i","l","a","b","l","e",".">> >>

\* C1: every call of generate_hints returns a list of exactly four strings,
\* none of them null, whatever the outcome of the Claude attempt.
C1_FourStrings ==
    Returned => Len(result) = 4 /\ \A i \in 1..4 : result[i] # None

\* C2: when the Claude attempt fails (timeout, transport exception, non-200
\* status, a body that is not the expected JSON) the call returns exactly
\* what the regex path gives for the same paragraphs, definitions and author.
C2_FallbackIsRegexResult ==
    (Returned /\ AttemptFailed) => result = RegexResult

C2_Witness ==
    /\ Returned /\ AttemptFailed
    /\ response[1].status = 500
    /\ definitions = << <<"c","r","u","e","l">>, <<"u","n","k","i","n","d">> >>
    /\ Len(hint_paragraphs) = 2
    /\ result[1] = <<"D","e","f","i","n","i","t","i","o","n","s",":"," ","'","c","r","u","e","l","'"," ","a","n","d"," ","'","u","n","k","i","n","d","'">>

C4_UsageAccumulates ==
    [][ (pc = "in_flight" /\ WellShaped(response'[1])) =>
            /\ total_api_calls' = << Val(total_api_calls) + 1 >>
            /\ total_input_tokens' = << Val(total_input_tokens) + response'[1].data.usage.input_tokens >>
            /\ total_output_tokens' = << Val(total_output_tokens) + response'[1].data.usage.output_tokens >>
            /\ model_used' = << response'[1].data.model >> ]_vars

\* C5: a new generator has its three counters at 0 and no model recorded,
\* and no step of a call lowers a counter or clears the model.
C5_ExplicitResetOnly ==
    /\ total_api_calls = << 0 >> /\ total_input_tokens = << 0 >>
    /\ total_output_tokens = << 0 >> /\ model_used = << None >>
    /\ [][ (pc # "idle" \/ pc' # "idle") => usage' = usage ]_vars

\* C6: a request is sent only when use_claude is set, the API key is
\* non-empty and the HTTP library is available; when any of the three is
\* missing no request is sent and the call returns the regex result.
C6_Gating ==
    LET enabled == use_claude /\ api_key # None /\ api_key # << >> /\ REQUESTS_AVAILABLE
    IN  /\ (posts > 0 \/ request # << >> \/ Attempted) => enabled
        /\ (Returned /\ ~enabled) =>
               /\ posts = 0 /\ request = << >> /\ ~Attempted
               /\ result = IF Len(hint_paragraphs) = 0 THEN GenericQuadruple ELSE RegexResult

C6_Witness ==
    /\ Returned /\ Len(hint_paragraphs) > 0
    /\ use_claude /\ api_key = << >> /\ REQUESTS_AVAILABLE
    /\ posts = 0 /\ result[4] # << >>

C8_SingleRequest ==
    [][ /\ posts' <= 1
        /\ pc = "in_flight" => (pc' = "returned" /\ posts' = posts /\ request' = request)
        /\ pc = "returned" => pc' = "idle"
        /\ (pc = "idle" /\ pc' # "idle") =>
              (pc' = "in_flight" <=>
                 (Len(hint_paragraphs') > 0 /\ use_claude /\ api_key # None /\ api_key # << >>
                  /\ REQUESTS_AVAILABLE))
        /\ pc' = "in_flight" => posts' = 1
        /\ config' = config ]_vars

C8_Witness ==
    /\ Returned /\ AttemptFailed /\ posts = 1
    /\ response[1].status = 429

(***************************************************************************)
(* The regex path on its own                                               *)
(***************************************************************************)
NoConfig ==
    /\ use_claude = FALSE /\ api_key = None /\ REQUESTS_AVAILABLE = FALSE
    /\ total_api_calls = << >> /\ total_input_tokens = << >>
    /\ total_output_tokens = << >> /\ model_used = << >>

InitRegex ==
    /\ NoManager
    /\ NoConfig
    /\ pc = "regex_input"
    /\ hint_paragraphs \in RegexParagraphLists
    /\ definitions \in RegexDefinitionLists
    /\ clue_text = None /\ answer = None /\ author = <<"g","e","n","e","r","i","c">>
    /\ request = << >> /\ posts = 0 /\ response = << >> /\ result = << >>
    /\ NoDetector
    /\ NoWebApp

\* _generate_hints_with_regex(' '.join(hint_paragraphs), hint_paragraphs, definitions, author)
GenerateWithRegex ==
    /\ pc = "regex_input"
    /\ result' = _generate_hints_with_regex(JoinWith(hint_paragraphs, <<" ">>), hint_paragraphs,
                                            definitions, author)
    /\ pc' = "regex_done"
    /\ UNCHANGED << webapp, manager, config, usage, hint_paragraphs, definitions, clue_text, answer, author,
                    request, posts, response, detector >>

NextRegex == GenerateWithRegex

SpecRegex == InitRegex /\ [][NextRegex]_vars

\* the maximal uppercase runs of length >= 2 of a text
UpperRuns(s) ==
    { Slice(s, i, RunEnd(s, i, UpperSet)) :
        i \in { k \in 1..Len(s) : /\ s[k] \in UpperSet
                                  /\ (k = 1 \/ s[k - 1] \notin UpperSet)
                                  /\ RunEnd(s, k, UpperSet) - k >= 2 } }

SourceRuns == UNION { UpperRuns(hint_paragraphs[k]) : k \in 1..Len(hint_paragraphs) }

Leaks(hint) == \E run \in SourceRuns : Contains(hint, run)

\* C9: hints 1, 2 and 3 of the regex path never contain an uppercase run of
\* length >= 2 that is an uppercase run of the source paragraphs.
C9_NoSpoiler ==
    pc = "regex_done" => \A i \in 1..3 : ~Leaks(result[i])

(***************************************************************************)
(* The author detector on its own                                          *)
(***************************************************************************)
InitAuthor ==
    /\ NoManager
    /\ NoConfig
    /\ pc = "author_input"
    /\ NoCall
    /\ NoWebApp
    /\ url \in Urls
    /\ content \in Contents
    /\ detected_author = << >>

\* author = self.style_detector.detect_author(url, content)
DetectAuthor ==
    /\ pc = "author_input"
    /\ detected_author' = << detect_author(url, content) >>
    /\ pc' = "author_done"
    /\ UNCHANGED << webapp, manager, config, usage, call, url, content >>

NextAuthor == DetectAuthor

SpecAuthor == InitAuthor /\ [][NextAuthor]_vars

\* the names captured by the by-phrase pattern matched from any position of s
ByCaptures(s) ==
    LET EndOfAlt(i) == IF MatchAt(s, i, <<"a","t">>) THEN i + 2
                       ELSE IF MatchAt(s, i, <<"p","o","s","t","e","d">>) THEN i + 6
                       ELSE 0
    IN  { ByCapture(s, ByFrom(s, EndOfAlt(i))) :
            i \in { k \in 1..Len(s) : EndOfAlt(k) # 0 /\ ByFrom(s, EndOfAlt(k)) # 0 } }

\* a is the first name of the table that occurs in s
FirstInTable(a, s) ==
    \E k \in 1..Len(KNOWN_AUTHORS) :
        /\ KNOWN_AUTHORS[k] = a
        /\ Contains(s, a)
        /\ \A j \in 1..(k - 1) : ~Contains(s, KNOWN_AUTHORS[j])

NoKnownIn(s) == \A k \in 1..Len(KNOWN_AUTHORS) : ~Contains(s, KNOWN_AUTHORS[k])

\* C10 as stated: a known author captured by any by-phrase of the content
\* wins over a name found elsewhere, and content containing
\* "posted at 2:29 am by PeterO" always yields petero.
C10_PrecedenceAsStated ==
    pc = "author_done" =>
        LET c == lower(content)
            u == lower(url)
            r == detected_author[1]
            known == { KNOWN_AUTHORS[k] : k \in 1..Len(KNOWN_AUTHORS) }
        IN  /\ r \in known \cup { <<"g","e","n","e","r","i","c">> }
            /\ (ByCaptures(c) \cap known # {}) => r \in ByCaptures(c)
            /\ Contains(content, <<"p","o","s","t","e","d"," ","a","t"," ","2",":","2","9"," ","a","m"," ","b","y"," ","P","e","t","e","r","O">>) => r = <<"p","e","t","e","r","o">>
            /\ (ByCaptures(c) = {} /\ Contains(c, <<"v","e","r","l","a","i","n","e">>) /\ ~Contains(c, <<"p","e","t","e","r","o">>))
                   => r = <<"v","e","r","l","a","i","n","e">>
            /\ (NoKnownIn(c) /\ NoKnownIn(u)) => r = <<"g","e","n","e","r","i","c">>

\* C10: the detector returns the name captured by the first match of the
\* by-phrase pattern when it is a known author; else the first known author,
\* in table order, named in the content; else the first named in the URL;
\* else generic, which it returns exactly when no known name occurs at all.
C10_Precedence ==
    pc = "author_done" =>
        LET c == lower(content)
            u == lower(url)
            r == detected_author[1]
            known == { KNOWN_AUTHORS[k] : k \in 1..Len(KNOWN_AUTHORS) }
            first == AuthorByMatch(c)
        IN  /\ r \in known \cup { <<"g","e","n","e","r","i","c">> }
            /\ first \in known => r = first
            /\ (first \notin known /\ ~NoKnownIn(c)) => FirstInTable(r, c)
            /\ (NoKnownIn(c) /\ ~NoKnownIn(u)) => FirstInTable(r, u)
            /\ r = <<"g","e","n","e","r","i","c">> <=> (NoKnownIn(c) /\ NoKnownIn(u))
            /\ (Contains(content, <<"p","o","s","t","e","d"," ","a","t"," ","2",":","2","9"," ","a","m"," ","b","y"," ","P","e","t","e","r","O">>) /\ first \notin (known \ { <<"p","e","t","e","r","o">> }))
                   => r = <<"p","e","t","e","r","o">>
            /\ (first \notin known /\ Contains(c, <<"v","e","r","l","a","i","n","e">>) /\ ~Contains(c, <<"p","e","t","e","r","o">>))
                   => r = <<"v","e","r","l","a","i","n","e">>
            /\ (NoKnownIn(c) /\ Contains(u, <<"v","i","n","y","l">>) /\ ~Contains(u, <<"p","e","t","e","r","o">>) /\ ~Contains(u, <<"v","e","r","l","a","i","n","e">>))
                   => r = <<"v","i","n","y","l">>

\* an earlier by-phrase names another known author than the dated byline
C10_Witness ==
    /\ pc = "author_done"
    /\ Contains(content, <<"p","o","s","t","e","d"," ","a","t"," ","2",":","2","9"," ","a","m"," ","b","y"," ","P","e","t","e","r","O">>)
    /\ Contains(content, <<"b","y"," ","V","i","n","y","l">>)
    /\ url = <<"h","t","t","p","s",":","/","/","x",".","n","e","t","/","V","i","n","y","l","/","P","e","t","e","r","O">>
    /\ detected_author = << <<"v","i","n","y","l">> >>

(***************************************************************************)
(* The technique classifier on its own                                     *)
(***************************************************************************)
InitTechnique ==
    /\ NoManager
    /\ NoConfig
    /\ pc = "technique_input"
    /\ hint_paragraphs \in TechniqueParagraphLists
    /\ definitions = << >>
    /\ clue_text = None /\ answer = None /\ author = <<"g","e","n","e","r","i","c">>
    /\ request = << >> /\ posts = 0 /\ response = << >> /\ result = << >>
    /\ NoDetector
    /\ NoWebApp

\* hint_2 = self._generate_technique_hint(full_text, paragraphs=hint_paragraphs)
GenerateTechniqueHint ==
    /\ pc = "technique_input"
    /\ result' = << _generate_technique_hint(JoinWith(hint_paragraphs, <<" ">>), hint_paragraphs) >>
    /\ pc' = "technique_done"
    /\ UNCHANGED << webapp, manager, config, usage, hint_paragraphs, definitions, clue_text, answer, author,
                    request, posts, response, detector >>

NextTechnique == GenerateTechniqueHint

SpecTechnique == InitTechnique /\ [][NextTechnique]_vars

\* the lowercased text the classifier reads
ClassifiedText == lower(JoinWith(hint_paragraphs, <<" ">>))

\* a phrase of the k-th row of the primary indicators is in the text
Tier1Present(k) ==
    \E i \in 1..Len(primary_indicators[k].indicators) :
        Contains(ClassifiedText, primary_indicators[k].indicators[i])

\* the tier-2 score of the technique of that name
ScoreOf(name) == TechniqueScore(TechIndex(name), ClassifiedText)

AnagramHint ==
    <<"T","h","i","s"," ","c","l","u","e"," ","u","s","e","s"," ","a","n"," ","a","n","a","g","r","a","m"," ","-"," ","l","o","o","k"," ","f","o","r"," ","a","n"," ","a","n","a","g","r","a","m"," ","i","n","d","i","c","a","t","o","r"," ","a","n","d"," ","l","e","t","t","e","r","s"," ","t","o"," ","r","e","a","r","r","a","n","g","e">>
GenericTechniqueHint == <<"A","n","a","l","y","z","e"," ","h","o","w"," ","t","h","e"," ","c","l","u","e"," ","b","r","e","a","k","s"," ","d","o","w","n"," ","i","n","t","o"," ","d","e","f","i","n","i","t","i","o","n"," ","a","n","d"," ","w","o","r","d","p","l","a","y">>

\* C11: a text that contains "anagram" gets the anagram hint whatever its
\* keyword scores; whenever a primary indicator phrase is present the hint is
\* that of the first technique, in table order, with such a phrase.
C11_Tier1Precedence ==
    pc = "technique_done" =>
        /\ Contains(ClassifiedText, <<"a","n","a","g","r","a","m">>) => result[1] = AnagramHint
        /\ \A k \in 1..Len(primary_indicators) :
              (Tier1Present(k) /\ \A j \in 1..(k - 1) : ~Tier1Present(j))
                  => result[1] = WORDPLAY_TECHNIQUES[TechIndex(primary_indicators[k].name)].hint

\* the keywords alone would have chosen charade
C11_Witness ==
    /\ pc = "technique_done"
    /\ Contains(ClassifiedText, <<"a","n","a","g","r","a","m">>)
    /\ ScoreOf(<<"c","h","a","r","a","d","e">>) >= 4
    /\ ScoreOf(<<"c","h","a","r","a","d","e">>) > ScoreOf(<<"a","n","a","g","r","a","m">>)
    /\ result[1] = AnagramHint

\* C12: without a primary indicator, the deletion hint needs a deletion
\* score of at least 3 and the charade hint a charade score of at least 4;
\* when only those two score and both stay below, the hint is the generic one.
C12_ConfidenceGuard ==
    (pc = "technique_done" /\ \A k \in 1..Len(primary_indicators) : ~Tier1Present(k)) =>
        /\ result[1] = TechHint(<<"d","e","l","e","t","i","o","n">>) => ScoreOf(<<"d","e","l","e","t","i","o","n">>) >= 3
        /\ result[1] = TechHint(<<"c","h","a","r","a","d","e">>) => ScoreOf(<<"c","h","a","r","a","d","e">>) >= 4
        /\ ( /\ ScoreOf(<<"d","e","l","e","t","i","o","n">>) < 3
             /\ ScoreOf(<<"c","h","a","r","a","d","e">>) < 4
             /\ \A k \in 1..Len(WORDPLAY_TECHNIQUES) :
                    WORDPLAY_TECHNIQUES[k].name \notin { <<"d","e","l","e","t","i","o","n">>, <<"c","h","a","r","a","d","e">> }
                        => TechniqueScore(k, ClassifiedText) = 0 )
           => result[1] = GenericTechniqueHint

C12_Witness ==
    /\ pc = "technique_done"
    /\ \A k \in 1..Len(primary_indicators) : ~Tier1Present(k)
    /\ ScoreOf(<<"d","e","l","e","t","i","o","n">>) = 2 /\ ScoreOf(<<"c","h","a","r","a","d","e">>) = 2
    /\ \A k \in 1..Len(WORDPLAY_TECHNIQUES) :
           WORDPLAY_TECHNIQUES[k].name \notin { <<"d","e","l","e","t","i","o","n">>, <<"c","h","a","r","a","d","e">> }
               => TechniqueScore(k, ClassifiedText) = 0
    /\ result[1] = GenericTechniqueHint

(***************************************************************************)
(* Properties of the four hints of the regex path                          *)
(***************************************************************************)
\* C13: with two definitions, hint 1 of the regex path shows both and
\* hint 2 says that the clue is a double definition.
C13_DoubleDefinition ==
    (pc = "regex_done" /\ Len(definitions) = 2) =>
        /\ Contains(result[1], definitions[1])
        /\ Contains(result[1], definitions[2])
        /\ Contains(lower(result[2]), <<"d","o","u","b","l","e"," ","d","e","f","i","n","i","t","i","o","n">>)

\* the starts of the all-caps words of length >= 3 of the joined paragraphs
AnswerStarts ==
    LET s == JoinWith(hint_paragraphs, <<" ">>)
    IN  { i \in CapsStarts(s) : Len(CapsWordAt(s, i)) >= 3 }

\* the last of the longest of them
LastLongestCapsWord ==
    LET s == JoinWith(hint_paragraphs, <<" ">>)
        longest == { i \in AnswerStarts :
                        \A j \in AnswerStarts : Len(CapsWordAt(s, j)) <= Len(CapsWordAt(s, i)) }
    IN  CapsWordAt(s, Max(longest))

\* C14: when the paragraphs hold an all-caps word of length >= 3, hint 4
\* starts with "Answer: X", X the longest such word and, among several of
\* that length, the last.
C14_AnswerToken ==
    (pc = "regex_done" /\ AnswerStarts # {}) =>
        LET token == <<"A","n","s","w","e","r",":"," ">> \o LastLongestCapsWord
        IN  /\ MatchAt(result[4], 1, token)
            /\ (Len(result[4]) = Len(token) \/ result[4][Len(token) + 1] = " ")

\* C15: hint 1 is never longer than hint 4, also for no paragraphs, and for
\* some paragraphs hint 4 of the regex path holds text of the paragraphs:
\* their concatenation or one of them.
C15_MonotonicSpecificity ==
    (Returned /\ ~Attempted) =>
        /\ Len(result[1]) <= Len(result[4])
        /\ Len(hint_paragraphs) > 0 =>
              \/ Contains(result[4], JoinWith(hint_paragraphs, <<" ">>))
              \/ \E k \in 1..Len(hint_paragraphs) : Contains(result[4], strip(hint_paragraphs[k]))

\* C16: each of the four hints of the regex path is a non-empty string.
C16_NonEmptyHints ==
    pc = "regex_done" => \A i \in 1..4 : result[i] # None /\ Len(result[i]) > 0

(***************************************************************************)
(* Usage statistics                                                        *)
(***************************************************************************)
\* values a caller has assigned to the usage attributes (<< >>: none assigned)
CallCounts == { << >>, << 0 >>, << 5 >> }
TokenCounts == { << >>, << 0 >>, << 1000 >>, << 100000 >>, << 1000000 >> }
ModelsUsed == { << >>, << None >>, << <<"t","e","s","t","-","m","o","d","e","l">> >> }

\* the exception Python raises for an attribute the object does not have
AttributeError == << "AttributeError" >>

InitUsage ==
    /\ NoManager
    /\ use_claude = FALSE /\ api_key = None /\ REQUESTS_AVAILABLE = FALSE
    /\ total_api_calls \in CallCounts
    /\ total_input_tokens \in TokenCounts
    /\ total_output_tokens \in TokenCounts
    /\ model_used \in ModelsUsed
    /\ pc = "stats_input"
    /\ NoCall
    /\ NoDetector
    /\ NoWebApp

\* stats = gen.get_usage_stats(): EnhancedHintGenerator defines no such
\* method, so the attribute lookup raises
GetUsageStats ==
    /\ pc = "stats_input"
    /\ result' = << AttributeError >>
    /\ pc' = "stats_done"
    /\ UNCHANGED << webapp, manager, config, usage, hint_paragraphs, definitions, clue_text, answer, author,
                    request, posts, response, detector >>

NextUsage == GetUsageStats

SpecUsage == InitUsage /\ [][NextUsage]_vars

\* C17: get_usage_stats reports api_calls = total_api_calls and the cost
\* 3 dollars per million input tokens plus 15 per million output tokens
\* (here in millionths of a dollar), and changes no counter.
C17_CostFormula ==
    [][ pc' = "stats_done" =>
          /\ result'[1] # AttributeError
          /\ result'[1].api_calls = Val(total_api_calls)
          /\ result'[1].estimated_cost_micro_usd
                 = 3 * Val(total_input_tokens) + 15 * Val(total_output_tokens)
          /\ usage' = usage ]_vars

(***************************************************************************)
(* Concurrent calls on one generator                                       *)
(***************************************************************************)
NumThreads == 2
Threads == 1..NumThreads

InitConcurrent ==
    /\ NoManager
    /\ use_claude = TRUE /\ api_key = <<"t","e","s","t","-","k","e","y">> /\ REQUESTS_AVAILABLE = TRUE
    /\ total_api_calls = << >> /\ total_input_tokens = << >>
    /\ total_output_tokens = << >> /\ model_used = << >>
    /\ pc = [t \in Threads |-> "idle"]
    /\ hint_paragraphs = << <<"t","e","x","t">> >>
    /\ definitions = None /\ clue_text = <<"C","l","u","e"," ","1">> /\ answer = <<"A","N","S">> /\ author = <<"g","e","n","e","r","i","c">>
    /\ request = [t \in Threads |-> << >>]
    /\ posts = [t \in Threads |-> 0]
    /\ response = [t \in Threads |-> << >>]
    /\ result = [t \in Threads |-> << >>]
    /\ NoDetector
    /\ NoWebApp

\* thread t calls generate_hints and blocks in requests.post
ThreadCalls(t) ==
    /\ pc[t] = "idle"
    /\ ClaudeEnabled
    /\ request' = [request EXCEPT ![t] =
                      << ClaudeRequest(JoinWith(hint_paragraphs, <<" ">>),
                                       DefinitionsOrEmpty(definitions), clue_text, answer) >>]
    /\ posts' = [posts EXCEPT ![t] = 1]
    /\ pc' = [pc EXCEPT ![t] = "in_flight"]
    /\ UNCHANGED << webapp, manager, config, usage, hint_paragraphs, definitions, clue_text, answer, author,
                    response, result, detector >>

\* requests.post returns or raises in thread t, and its call returns
ThreadPostReturns(t) ==
    /\ pc[t] = "in_flight"
    /\ \E resp \in Responses :
        /\ response' = [response EXCEPT ![t] = << resp >>]
        /\ result' = [result EXCEPT ![t] =
                         IF ClaudeHints(resp) # None THEN ClaudeHints(resp)
                         ELSE _generate_hints_with_regex(JoinWith(hint_paragraphs, <<" ">>),
                                  hint_paragraphs, DefinitionsOrEmpty(definitions), author)]
    /\ pc' = [pc EXCEPT ![t] = "returned"]
    /\ UNCHANGED << webapp, manager, config, usage, hint_paragraphs, definitions, clue_text, answer, author,
                    request, posts, detector >>

NextConcurrent == \E t \in Threads : ThreadCalls(t) \/ ThreadPostReturns(t)

SpecConcurrent == InitConcurrent /\ [][NextConcurrent]_vars

RECURSIVE SumOver(_, _)
\* the sum of f[t] over the threads 1..n
SumOver(f, n) == IF n = 0 THEN 0 ELSE f[n] + SumOver(f, n - 1)

\* C18: when the concurrent calls have all returned and all succeeded, the
\* call counter has grown by their number and each token total by the sum
\* of the token counts reported to them.
C18_AtomicUsageUpdates ==
    (\A t \in Threads : pc[t] = "returned" /\ WellShaped(response[t][1])) =>
        /\ Val(total_api_calls) = NumThreads
        /\ Val(total_input_tokens)
               = SumOver([t \in Threads |-> response[t][1].data.usage.input_tokens], NumThreads)
        /\ Val(total_output_tokens)
               = SumOver([t \in Threads |-> response[t][1].data.usage.output_tokens], NumThreads)

(***************************************************************************)
(* The web service: the hint tables and the endpoints that read and write  *)
(* them (production_app.py)                                                *)
(***************************************************************************)
VALID_HINT_LEVELS == {1, 2, 3, 4}

\* a value of a JSON request body as request.get_json() delivers it, tagged
\* with its Python type; a float is held in tenths (1.0 is JsonFloat(10))
JsonInt(n) == << "int", n >>
JsonFloat(tenths) == << "float", tenths >>
JsonBool(b) == << "bool", b >>
JsonStr(s) == << "str", s >>
JsonNull == << "NoneType" >>
JsonList == << "list" >>

TypeOf(v) == v[1]

\* str(n) of an int n >= 0
RECURSIVE StrOfNat(_)
StrOfNat(n) ==
    IF n < 10 THEN << DigitChars[n + 1] >>
    ELSE StrOfNat(n \div 10) \o << DigitChars[(n % 10) + 1] >>

\* what an f-string puts in place of {v}
FormatValue(v) ==
    CASE TypeOf(v) = "int" -> StrOfNat(v[2])
      [] TypeOf(v) = "float" -> StrOfNat(v[2] \div 10) \o <<".">> \o StrOfNat(v[2] % 10)
      [] TypeOf(v) = "bool" -> IF v[2] THEN <<"T","r","u","e">> ELSE <<"F","a","l","s","e">>
      [] TypeOf(v) = "str" -> v[2]
      [] TypeOf(v) = "NoneType" -> <<"N","o","n","e">>
      [] OTHER -> <<"[","1","]">>

\* a list cannot be hashed: `[1] in VALID_HINT_LEVELS` raises TypeError
Hashable(v) == TypeOf(v) # "list"

\* `v in VALID_HINT_LEVELS` for a hashable v: set membership goes by hash and
\* ==, and 1 == 1.0 == True in Python
InValidHintLevels(v) ==
    CASE TypeOf(v) = "int" -> v[2] \in VALID_HINT_LEVELS
      [] TypeOf(v) = "float" -> v[2] % 10 = 0 /\ (v[2] \div 10) \in VALID_HINT_LEVELS
      [] TypeOf(v) = "bool" -> v[2]
      [] OTHER -> FALSE

\* the column names the handlers build with f-strings
HintLevelColumn(v) == <<"h","i","n","t","_","l","e","v","e","l","_">> \o FormatValue(v)
ApprovedColumn(v) == <<"h","i","n","t","_">> \o FormatValue(v) \o <<"_","a","p","p","r","o","v","e","d">>
FlaggedColumn(v) == <<"h","i","n","t","_">> \o FormatValue(v) \o <<"_","f","l","a","g","g","e","d">>

\* the hint columns CREATE TABLE clues declares
ClueColumns ==
    UNION { { HintLevelColumn(JsonInt(n)), ApprovedColumn(JsonInt(n)), FlaggedColumn(JsonInt(n)) }
            : n \in VALID_HINT_LEVELS }

\* a call of cursor.execute
Statement(verb, table, columns) == [ verb |-> verb, table |-> table, columns |-> columns ]

\* the database raises for a statement that names a column the table lacks
Runs(stmt) == \A i \in 1..Len(stmt.columns) : stmt.columns[i] \in ClueColumns

\* the level whose columns the f-string named
LevelOf(v) == CHOOSE n \in VALID_HINT_LEVELS : HintLevelColumn(JsonInt(n)) = HintLevelColumn(v)

\* a response: status code, what the body says, and the hint texts in it as
\* (clue id, level, text) triples
Response(status, body, hints) == [ status |-> status, body |-> body, hints |-> hints ]

Outcome(resp, stmts, pz, cl, rv) ==
    [ response |-> resp, executed |-> stmts, puzzles |-> pz, clues |-> cl, hint_revisions |-> rv,
      id_seq |-> id_seq, session |-> session ]

\* an unhandled exception: Flask answers 500, nothing is committed
ServerError(what, stmts, pz, cl, rv) == Outcome(Response(500, what, {}), stmts, pz, cl, rv)

\* `x or ''` of a hint column
OrEmpty(text) == IF text = None THEN << >> ELSE text

AllHintsOf(cl, clue_id) ==
    { << clue_id, n, OrEmpty(cl[clue_id].hint_level[n]) >> : n \in VALID_HINT_LEVELS }

\* GET /api/puzzle/<puzzle_number>
get_puzzle_by_number(pz, cl, rv, puzzle_number) ==
    LET select_puzzle == Statement("SELECT", "puzzles", << >>)
        select_clues == Statement("SELECT", "clues", << HintLevelColumn(JsonInt(1)), HintLevelColumn(JsonInt(2)),
                                                        HintLevelColumn(JsonInt(3)), HintLevelColumn(JsonInt(4)) >>)
        found == { p \in DOMAIN pz : pz[p].puzzle_number = puzzle_number /\ pz[p].status = "published" }
    IN  IF found = {}
        THEN Outcome(Response(404, "Puzzle not found", {}), << select_puzzle >>, pz, cl, rv)
        ELSE LET puzzle == CHOOSE p \in found : \A q \in found : p <= q
             IN  Outcome(Response(200, "puzzle",
                                  UNION { AllHintsOf(cl, c) : c \in { d \in DOMAIN cl : cl[d].puzzle_id = puzzle } }),
                         << select_puzzle, select_clues >>, pz, cl, rv)

\* GET /api/clue/<int:clue_id>/hints
get_clue_hints(pz, cl, rv, clue_id) ==
    LET select == Statement("SELECT", "clues", << HintLevelColumn(JsonInt(1)), HintLevelColumn(JsonInt(2)),
                                                  HintLevelColumn(JsonInt(3)), HintLevelColumn(JsonInt(4)) >>)
    IN  IF clue_id \notin DOMAIN cl
        THEN Outcome(Response(404, "Clue not found", {}), << select >>, pz, cl, rv)
        ELSE Outcome(Response(200, "hints", AllHintsOf(cl, clue_id)), << select >>, pz, cl, rv)

\* GET /api/clue/<int:clue_id>/hint/<int:level>: the approved column is
\* selected and not looked at
get_hint(pz, cl, rv, clue_id, level) ==
    IF level \notin {1, 2, 3, 4}
    THEN Outcome(Response(400, "Invalid hint level", {}), << >>, pz, cl, rv)
    ELSE LET select == Statement("SELECT", "clues", << HintLevelColumn(JsonInt(level)),
                                                       ApprovedColumn(JsonInt(level)) >>)
         IN  IF clue_id \notin DOMAIN cl
             THEN Outcome(Response(404, "Clue not found", {}), << select >>, pz, cl, rv)
             ELSE Outcome(Response(200, "hint_text", { << clue_id, level, cl[clue_id].hint_level[level] >> }),
                          << select >>, pz, cl, rv)

\* login_required without its test of the session
login_required_unchecked(logged_in, outcome, pz, cl, rv) == outcome

\* the decorator of the admin routes
login_required(logged_in, outcome, pz, cl, rv) ==
    IF ~logged_in
    THEN Outcome(Response(401, "Authentication required", {}), << >>, pz, cl, rv)
    ELSE outcome

\* update_hint sending the edited level back to review: it clears the
\* approval with the flag
update_hint_clears_approval(pz, cl, rv, clue_id, hint_level, new_text) ==
    IF ~Hashable(hint_level) THEN ServerError("TypeError", << >>, pz, cl, rv)
    ELSE IF ~InValidHintLevels(hint_level)
    THEN Outcome(Response(400, "Invalid hint level", {}), << >>, pz, cl, rv)
    ELSE LET select == Statement("SELECT", "clues", << HintLevelColumn(hint_level) >>)
             update == Statement("UPDATE", "clues", << HintLevelColumn(hint_level), FlaggedColumn(hint_level) >>)
             insert == Statement("INSERT", "hint_revisions", << >>)
         IN  IF ~Runs(select) THEN ServerError("database error", << select >>, pz, cl, rv)
             ELSE IF clue_id \notin DOMAIN cl THEN ServerError("TypeError", << select >>, pz, cl, rv)
             ELSE LET n == LevelOf(hint_level)
                      old_text == cl[clue_id].hint_level[n]
                  IN  Outcome(Response(200, "success", {}), << select, update, insert >>, pz,
                              [cl EXCEPT ![clue_id].hint_level[n] = new_text, ![clue_id].flagged[n] = FALSE,
                                         ![clue_id].approved[n] = FALSE],
                              Append(rv, [ clue_id |-> clue_id, hint_level |-> n,
                                           old_text |-> old_text, new_text |-> new_text ]))

\* POST /admin/api/hint/update
update_hint(pz, cl, rv, clue_id, hint_level, new_text) ==
    IF ~Hashable(hint_level) THEN ServerError("TypeError", << >>, pz, cl, rv)
    ELSE IF ~InValidHintLevels(hint_level)
    THEN Outcome(Response(400, "Invalid hint level", {}), << >>, pz, cl, rv)
    ELSE LET select == Statement("SELECT", "clues", << HintLevelColumn(hint_level) >>)
             update == Statement("UPDATE", "clues", << HintLevelColumn(hint_level), FlaggedColumn(hint_level) >>)
             insert == Statement("INSERT", "hint_revisions", << >>)
         IN  IF ~Runs(select) THEN ServerError("database error", << select >>, pz, cl, rv)
             ELSE IF clue_id \notin DOMAIN cl THEN ServerError("TypeError", << select >>, pz, cl, rv)
             ELSE LET n == LevelOf(hint_level)
                      old_text == cl[clue_id].hint_level[n]
                  IN  Outcome(Response(200, "success", {}), << select, update, insert >>, pz,
                              [cl EXCEPT ![clue_id].hint_level[n] = new_text, ![clue_id].flagged[n] = FALSE],
                              Append(rv, [ clue_id |-> clue_id, hint_level |-> n,
                                           old_text |-> old_text, new_text |-> new_text ]))

\* approve_hint setting the approval and leaving the flag as it is
approve_hint_keeps_flag(pz, cl, rv, clue_id, hint_level) ==
    IF ~Hashable(hint_level) THEN ServerError("TypeError", << >>, pz, cl, rv)
    ELSE IF ~InValidHintLevels(hint_level)
    THEN Outcome(Response(400, "Invalid hint level", {}), << >>, pz, cl, rv)
    ELSE LET update == Statement("UPDATE", "clues", << ApprovedColumn(hint_level), FlaggedColumn(hint_level) >>)
         IN  IF ~Runs(update) THEN ServerError("database error", << update >>, pz, cl, rv)
             ELSE LET n == LevelOf(hint_level)
                  IN  Outcome(Response(200, "success", {}), << update >>, pz,
                              IF clue_id \in DOMAIN cl
                              THEN [cl EXCEPT ![clue_id].approved[n] = TRUE]
                              ELSE cl,
                              rv)

\* POST /admin/api/hint/approve
approve_hint(pz, cl, rv, clue_id, hint_level) ==
    IF ~Hashable(hint_level) THEN ServerError("TypeError", << >>, pz, cl, rv)
    ELSE IF ~InValidHintLevels(hint_level)
    THEN Outcome(Response(400, "Invalid hint level", {}), << >>, pz, cl, rv)
    ELSE LET update == Statement("UPDATE", "clues", << ApprovedColumn(hint_level), FlaggedColumn(hint_level) >>)
         IN  IF ~Runs(update) THEN ServerError("database error", << update >>, pz, cl, rv)
             ELSE LET n == LevelOf(hint_level)
                  IN  Outcome(Response(200, "success", {}), << update >>, pz,
                              IF clue_id \in DOMAIN cl
                              THEN [cl EXCEPT ![clue_id].approved[n] = TRUE, ![clue_id].flagged[n] = FALSE]
                              ELSE cl,
                              rv)

\* POST /admin/api/hint/flag
flag_hint(pz, cl, rv, clue_id, hint_level) ==
    IF ~Hashable(hint_level) THEN ServerError("TypeError", << >>, pz, cl, rv)
    ELSE IF ~InValidHintLevels(hint_level)
    THEN Outcome(Response(400, "Invalid hint level", {}), << >>, pz, cl, rv)
    ELSE LET update == Statement("UPDATE", "clues", << FlaggedColumn(hint_level), ApprovedColumn(hint_level) >>)
         IN  IF ~Runs(update) THEN ServerError("database error", << update >>, pz, cl, rv)
             ELSE LET n == LevelOf(hint_level)
                  IN  Outcome(Response(200, "success", {}), << update >>, pz,
                              IF clue_id \in DOMAIN cl
                              THEN [cl EXCEPT ![clue_id].flagged[n] = TRUE, ![clue_id].approved[n] = FALSE]
                              ELSE cl,
                              rv)

\* the value of published_at once set (the clock is not part of the model)
CURRENT_TIMESTAMP == << "CURRENT_TIMESTAMP" >>

\* POST /admin/api/puzzle/<int:puzzle_id>/publish (the subscribers and their
\* e-mails are not part of the model)
publish_puzzle(pz, cl, rv, puzzle_id) ==
    LET count == Statement("SELECT", "clues", << ApprovedColumn(JsonInt(1)), ApprovedColumn(JsonInt(2)),
                                                 ApprovedColumn(JsonInt(3)), ApprovedColumn(JsonInt(4)) >>)
        update == Statement("UPDATE", "puzzles", << >>)
        subscribers == Statement("SELECT", "subscribers", << >>)
        unapproved == Cardinality({ c \in DOMAIN cl : /\ cl[c].puzzle_id = puzzle_id
                                                      /\ \E n \in VALID_HINT_LEVELS : ~cl[c].approved[n] })
    IN  IF unapproved > 0
        THEN Outcome(Response(400, "hints still need approval", {}), << count >>, pz, cl, rv)
        ELSE Outcome(Response(200, "success", {}), << count, update, subscribers >>,
                     IF puzzle_id \in DOMAIN pz THEN [pz EXCEPT ![puzzle_id].status = "published", ![puzzle_id].published_at = CURRENT_TIMESTAMP] ELSE pz,
                     cl, rv)

\* POST /admin/api/puzzle/<int:puzzle_id>/unpublish
unpublish_puzzle(pz, cl, rv, puzzle_id) ==
    Outcome(Response(200, "success", {}), << Statement("UPDATE", "puzzles", << >>) >>,
            IF puzzle_id \in DOMAIN pz THEN [pz EXCEPT ![puzzle_id].status = "draft"] ELSE pz,
            cl, rv)

\* the rows INSERT INTO clues adds, one per entry of data['clues'], with ids
\* from the SERIAL column
InsertClues(cl, seq, puzzle_id, clue_data) ==
    [ c \in DOMAIN cl \cup (seq.clues + 1)..(seq.clues + Len(clue_data)) |->
        IF c \in DOMAIN cl THEN cl[c]
        ELSE [ puzzle_id |-> puzzle_id,
               hint_level |-> clue_data[c - seq.clues].hints,
               approved |-> << FALSE, FALSE, FALSE, FALSE >>,
               flagged |-> clue_data[c - seq.clues].flagged ] ]

\* POST /admin/api/import-puzzle: a draft puzzle and its clues; the approved
\* columns take their default
import_puzzle(pz, cl, rv, seq, data) ==
    LET puzzle_id == seq.puzzles + 1
    IN  [ Outcome(Response(200, "success", {}),
                  << Statement("INSERT", "puzzles", << >>) >>
                      \o [ i \in 1..Len(data.clues) |->
                             Statement("INSERT", "clues", << HintLevelColumn(JsonInt(1)), HintLevelColumn(JsonInt(2)),
                                                             HintLevelColumn(JsonInt(3)), HintLevelColumn(JsonInt(4)),
                                                             FlaggedColumn(JsonInt(1)), FlaggedColumn(JsonInt(2)),
                                                             FlaggedColumn(JsonInt(3)), FlaggedColumn(JsonInt(4)) >>) ],
                  [ p \in DOMAIN pz \cup { puzzle_id } |->
                      IF p \in DOMAIN pz THEN pz[p]
                      ELSE [ puzzle_number |-> data.puzzle_number, status |-> "draft", published_at |-> None ] ],
                  InsertClues(cl, seq, puzzle_id, data.clues), rv)
            EXCEPT !.id_seq = [ puzzles |-> puzzle_id, clues |-> seq.clues + Len(data.clues) ] ]

\* DELETE /admin/api/puzzle/<int:puzzle_id>: the clues of the puzzle, then the
\* puzzle; the revisions of the deleted clues go by ON DELETE CASCADE
delete_puzzle(pz, cl, rv, puzzle_id) ==
    LET kept == { c \in DOMAIN cl : cl[c].puzzle_id # puzzle_id }
    IN  Outcome(Response(200, "Puzzle deleted", {}),
                << Statement("DELETE", "clues", << >>), Statement("DELETE", "puzzles", << >>) >>,
                [ p \in DOMAIN pz \ { puzzle_id } |-> pz[p] ],
                [ c \in kept |-> cl[c] ],
                SelectSeq(rv, LAMBDA r : r.clue_id \in kept))

\* the lengths scrape_and_import cuts hint1..hint4 to
HintLimits == << 1000, 1000, 2000, 5000 >>

\* the tables init_db creates
InitDbTables == << "puzzles", "clues", "hint_revisions", "user_progress", "api_usage", "subscribers" >>

\* text[:n]
Truncate(text, n) == SubSeq(text, 1, IF Len(text) < n THEN Len(text) ELSE n)

\* hint1..hint4 of scrape_and_import: hints[k][:limit] if len(hints) > k else ''
ScrapedHints(hints) ==
    [ k \in 1..4 |-> IF Len(hints) >= k THEN Truncate(hints[k], HintLimits[k]) ELSE << >> ]

\* POST /admin/api/scrape-and-import; `scraped` is what PuzzleScraper made of
\* the two sites: it raised, it returned {'error': ...}, or a puzzle
scrape_and_import(pz, cl, rv, seq, puzzle_number, scraped) ==
    IF ~Truthy(puzzle_number)
    THEN Outcome(Response(200, "Puzzle number required", {}), << >>, pz, cl, rv)
    ELSE IF scraped.outcome = "raised"
    THEN Outcome(Response(200, "Scraping failed", {}), << >>, pz, cl, rv)
    ELSE IF scraped.outcome = "error"
    THEN Outcome(Response(200, "Could not fetch puzzle from Guardian", {}), << >>, pz, cl, rv)
    ELSE LET puzzle_id == seq.puzzles + 1
             clue_data == [ i \in 1..Len(scraped.clues) |->
                              [ hints |-> ScrapedHints(scraped.clues[i].hints),
                                flagged |-> << FALSE, FALSE, FALSE, FALSE >> ] ]
         IN  [ Outcome(Response(200, "success", {}),
                       << Statement("INSERT", "puzzles", << >>) >>
                           \o (IF scraped.api_calls > 0 THEN << Statement("INSERT", "api_usage", << >>) >> ELSE << >>)
                           \o [ i \in 1..Len(clue_data) |->
                                  Statement("INSERT", "clues",
                                            << HintLevelColumn(JsonInt(1)), HintLevelColumn(JsonInt(2)),
                                               HintLevelColumn(JsonInt(3)), HintLevelColumn(JsonInt(4)),
                                               ApprovedColumn(JsonInt(1)), ApprovedColumn(JsonInt(2)),
                                               ApprovedColumn(JsonInt(3)), ApprovedColumn(JsonInt(4)) >>) ],
                       [ p \in DOMAIN pz \cup { puzzle_id } |->
                           IF p \in DOMAIN pz THEN pz[p]
                           ELSE [ puzzle_number |-> puzzle_number, status |-> "draft", published_at |-> None ] ],
                       InsertClues(cl, seq, puzzle_id, clue_data), rv)
                 EXCEPT !.id_seq = [ puzzles |-> puzzle_id, clues |-> seq.clues + Len(clue_data) ] ]

\* the admin pages: send_from_directory('static', ...)
AdminPages ==
    { "admin_dashboard", "admin_puzzles", "admin_review", "admin_quick_import", "admin_usage",
      "admin_subscribers" }

admin_page(pz, cl, rv, page) == Outcome(Response(200, page, {}), << >>, pz, cl, rv)

\* the admin routes that only read: the tables their SELECTs name
AdminReads ==
    { << "get_all_puzzles_admin", << "puzzles" >> >>,
      << "get_pending_puzzles", << "puzzles" >> >>,
      << "get_puzzle_clues_for_review", << "clues" >> >>,
      << "get_api_usage", << "api_usage", "api_usage" >> >>,
      << "get_subscribers", << "subscribers", "subscribers" >> >> }

admin_read(pz, cl, rv, route) ==
    Outcome(Response(200, route[1], {}),
            [ i \in 1..Len(route[2]) |-> Statement("SELECT", route[2][i], << >>) ], pz, cl, rv)

\* GET /admin/init-db: init_db creates what does not exist yet and touches no row
admin_init_db(pz, cl, rv) ==
    Outcome(Response(200, "Database initialized successfully!", {}),
            [ i \in 1..Len(InitDbTables) |-> Statement("CREATE", InitDbTables[i], << >>) ], pz, cl, rv)

\* DELETE /admin/api/subscriber/<int:subscriber_id> (the subscribers table is
\* not part of the model)
delete_subscriber(pz, cl, rv, subscriber_id) ==
    Outcome(Response(200, "success", {}), << Statement("DELETE", "subscribers", << >>) >>, pz, cl, rv)

ADMIN_USERNAME == <<"a","d","m","i","n">>

\* werkzeug's salted hash, by what check_password_hash makes of it: a hash
\* checks against the password it was generated from and no other
generate_password_hash(password) == << "hash", password >>
check_password_hash(pwhash, password) == pwhash = generate_password_hash(password)

ADMIN_PASSWORD_HASH == generate_password_hash(<<"c","h","a","n","g","e","m","e","1","2","3">>)

\* GET and POST /admin/login
admin_login(pz, cl, rv, method, username, password) ==
    IF method = "POST"
    THEN IF username = ADMIN_USERNAME /\ check_password_hash(ADMIN_PASSWORD_HASH, password)
         THEN [ Outcome(Response(200, "Login successful", {}), << >>, pz, cl, rv)
                    EXCEPT !.session = << [ logged_in |-> TRUE, username |-> username ] >> ]
         ELSE Outcome(Response(401, "Invalid credentials", {}), << >>, pz, cl, rv)
    ELSE Outcome(Response(200, "login page", {}), << >>, pz, cl, rv)

\* GET /admin/logout: session.clear() and a redirect to the login page
admin_logout(pz, cl, rv) ==
    [ Outcome(Response(302, "admin_login", {}), << >>, pz, cl, rv) EXCEPT !.session = << >> ]

\* Inputs of the requests
Methods == { "GET", "POST" }
Usernames == { <<"a","d","m","i","n">>, <<"g","u","e","s","t">> }
SubscriberIds == {1}
ScrapedNumbers == { None, <<"2","9","0","0","0">> }
Passwords == { <<"c","h","a","n","g","e","m","e","1","2","3">>, <<"l","e","t","m","e","i","n">> }
MaxPuzzles == 1
MaxRevisions == 1
PuzzleNumbers == { <<"2","9","0","0","0">>, <<"2","9","0","0","1">> }
PuzzleIds == {1, 2}
ClueIds == {1, 2}
UrlLevels == 0..5
HintLevels ==
    { JsonInt(n) : n \in 0..5 }
        \cup { JsonFloat(10), JsonBool(TRUE), JsonStr(<<"1",";"," ","D","R","O","P"," ","T","A","B","L","E"," ","c","l","u","e","s","-","-">>), JsonNull, JsonList }
NewTexts == { <<"e","d","i","t","e","d">> }
ImportedHints == << <<"h","i","n","t"," ","1">>, <<"h","i","n","t"," ","2">>, <<"h","i","n","t"," ","3">>, <<"h","i","n","t"," ","4">> >>
ImportData ==
    { [ puzzle_number |-> <<"2","9","0","0","0">>, clues |-> << [ hints |-> ImportedHints, flagged |-> f ] >> ]
      : f \in { << FALSE, FALSE, FALSE, FALSE >>, << TRUE, FALSE, FALSE, FALSE >> } }
ScrapeResults ==
    { [ outcome |-> "raised", clues |-> << >>, api_calls |-> 0 ],
      [ outcome |-> "error", clues |-> << >>, api_calls |-> 0 ],
      [ outcome |-> "puzzle", clues |-> << [ hints |-> ImportedHints ] >>, api_calls |-> 1 ],
      [ outcome |-> "puzzle", clues |-> << [ hints |-> << >> ] >>, api_calls |-> 0 ] }

\* the request as the handler sees it: the endpoint, the id in the URL or the
\* body, for the hint endpoints the level and the new text, and for the login
\* the user name (as id) and the password (as text)
Request(endpoint, method, logged_in, id, level, text) ==
    [ endpoint |-> endpoint, method |-> method, logged_in |-> logged_in, id |-> id, hint_level |-> level,
      new_text |-> text ]

\* `'logged_in' in session`
LoggedIn == session # << >> /\ "logged_in" \in DOMAIN session[1]

\* init_db has run: empty tables, no request being handled and no session
InitApp ==
    /\ NoManager
    /\ NoConfig
    /\ pc = "waiting"
    /\ NoCall
    /\ NoDetector
    /\ NoWebApp

\* the handler's outcome becomes the response, and its commit the tables
Handled(req, outcome) ==
    /\ pc' = "responded"
    /\ http_request' = << req >>
    /\ http_response' = << outcome.response >>
    /\ executed' = outcome.executed
    /\ puzzles' = outcome.puzzles
    /\ clues' = outcome.clues
    /\ hint_revisions' = outcome.hint_revisions
    /\ id_seq' = outcome.id_seq
    /\ session' = outcome.session
    /\ UNCHANGED << manager, config, usage, call, detector >>

GetPuzzleByNumber ==
    /\ pc = "waiting"
    /\ \E number \in PuzzleNumbers :
        Handled(Request("get_puzzle_by_number", "GET", LoggedIn, JsonStr(number), JsonNull, None),
                get_puzzle_by_number(puzzles, clues, hint_revisions, number))

GetClueHints ==
    /\ pc = "waiting"
    /\ \E clue_id \in ClueIds :
        Handled(Request("get_clue_hints", "GET", LoggedIn, JsonInt(clue_id), JsonNull, None),
                get_clue_hints(puzzles, clues, hint_revisions, clue_id))

GetHint ==
    /\ pc = "waiting"
    /\ \E clue_id \in ClueIds, level \in UrlLevels :
        Handled(Request("get_hint", "GET", LoggedIn, JsonInt(clue_id), JsonInt(level), None),
                get_hint(puzzles, clues, hint_revisions, clue_id, level))

UpdateHint ==
    /\ pc = "waiting"
    /\ Len(hint_revisions) < MaxRevisions
    /\ \E clue_id \in ClueIds, hint_level \in HintLevels, new_text \in NewTexts :
        Handled(Request("update_hint", "POST", LoggedIn, JsonInt(clue_id), hint_level, new_text),
                login_required(LoggedIn,
                               update_hint(puzzles, clues, hint_revisions, clue_id, hint_level, new_text),
                               puzzles, clues, hint_revisions))

ApproveHint ==
    /\ pc = "waiting"
    /\ \E clue_id \in ClueIds, hint_level \in HintLevels :
        Handled(Request("approve_hint", "POST", LoggedIn, JsonInt(clue_id), hint_level, None),
                login_required(LoggedIn, approve_hint(puzzles, clues, hint_revisions, clue_id, hint_level),
                               puzzles, clues, hint_revisions))

FlagHint ==
    /\ pc = "waiting"
    /\ \E clue_id \in ClueIds, hint_level \in HintLevels :
        Handled(Request("flag_hint", "POST", LoggedIn, JsonInt(clue_id), hint_level, None),
                login_required(LoggedIn, flag_hint(puzzles, clues, hint_revisions, clue_id, hint_level),
                               puzzles, clues, hint_revisions))

PublishPuzzle ==
    /\ pc = "waiting"
    /\ \E puzzle_id \in PuzzleIds :
        Handled(Request("publish_puzzle", "POST", LoggedIn, JsonInt(puzzle_id), JsonNull, None),
                login_required(LoggedIn, publish_puzzle(puzzles, clues, hint_revisions, puzzle_id),
                               puzzles, clues, hint_revisions))

UnpublishPuzzle ==
    /\ pc = "waiting"
    /\ \E puzzle_id \in PuzzleIds :
        Handled(Request("unpublish_puzzle", "POST", LoggedIn, JsonInt(puzzle_id), JsonNull, None),
                login_required(LoggedIn, unpublish_puzzle(puzzles, clues, hint_revisions, puzzle_id),
                               puzzles, clues, hint_revisions))

ImportPuzzle ==
    /\ pc = "waiting"
    /\ id_seq.puzzles < MaxPuzzles
    /\ \E data \in ImportData :
        Handled(Request("import_puzzle", "POST", LoggedIn, JsonStr(data.puzzle_number), JsonNull, None),
                login_required(LoggedIn, import_puzzle(puzzles, clues, hint_revisions, id_seq, data),
                               puzzles, clues, hint_revisions))

ScrapeAndImport ==
    /\ pc = "waiting"
    /\ id_seq.puzzles < MaxPuzzles
    /\ \E puzzle_number \in ScrapedNumbers, scraped \in ScrapeResults :
        Handled(Request("scrape_and_import", "POST", LoggedIn, JsonStr(puzzle_number), JsonNull, None),
                login_required(LoggedIn,
                               scrape_and_import(puzzles, clues, hint_revisions, id_seq, puzzle_number, scraped),
                               puzzles, clues, hint_revisions))

AdminPage ==
    /\ pc = "waiting"
    /\ \E page \in AdminPages :
        Handled(Request(page, "GET", LoggedIn, JsonNull, JsonNull, None),
                login_required(LoggedIn, admin_page(puzzles, clues, hint_revisions, page),
                               puzzles, clues, hint_revisions))

AdminRead ==
    /\ pc = "waiting"
    /\ \E route \in AdminReads :
        Handled(Request(route[1], "GET", LoggedIn, JsonNull, JsonNull, None),
                login_required(LoggedIn, admin_read(puzzles, clues, hint_revisions, route),
                               puzzles, clues, hint_revisions))

AdminInitDb ==
    /\ pc = "waiting"
    /\ Handled(Request("admin_init_db", "GET", LoggedIn, JsonNull, JsonNull, None),
               login_required(LoggedIn, admin_init_db(puzzles, clues, hint_revisions),
                              puzzles, clues, hint_revisions))

DeleteSubscriber ==
    /\ pc = "waiting"
    /\ \E subscriber_id \in SubscriberIds :
        Handled(Request("delete_subscriber", "DELETE", LoggedIn, JsonInt(subscriber_id), JsonNull, None),
                login_required(LoggedIn, delete_subscriber(puzzles, clues, hint_revisions, subscriber_id),
                               puzzles, clues, hint_revisions))

DeletePuzzle ==
    /\ pc = "waiting"
    /\ \E puzzle_id \in PuzzleIds :
        Handled(Request("delete_puzzle", "DELETE", LoggedIn, JsonInt(puzzle_id), JsonNull, None),
                login_required(LoggedIn, delete_puzzle(puzzles, clues, hint_revisions, puzzle_id),
                               puzzles, clues, hint_revisions))

AdminLogin ==
    /\ pc = "waiting"
    /\ \E method \in Methods, username \in Usernames, password \in Passwords :
        Handled(Request("admin_login", method, LoggedIn, JsonStr(username), JsonNull, password),
                admin_login(puzzles, clues, hint_revisions, method, username, password))

AdminLogout ==
    /\ pc = "waiting"
    /\ Handled(Request("admin_logout", "GET", LoggedIn, JsonNull, JsonNull, None),
               admin_logout(puzzles, clues, hint_revisions))

\* the response is sent and the worker waits for the next request
SendResponse ==
    /\ pc = "responded"
    /\ pc' = "waiting"
    /\ http_request' = << >> /\ http_response' = << >> /\ executed' = << >>
    /\ UNCHANGED << database, session, manager, config, usage, call, detector >>

NextApp ==
    \/ GetPuzzleByNumber \/ GetClueHints \/ GetHint
    \/ UpdateHint \/ ApproveHint \/ FlagHint
    \/ PublishPuzzle \/ UnpublishPuzzle \/ ImportPuzzle
    \/ ScrapeAndImport \/ DeletePuzzle \/ DeleteSubscriber
    \/ AdminPage \/ AdminRead \/ AdminInitDb
    \/ AdminLogin \/ AdminLogout
    \/ SendResponse

SpecApp == InitApp /\ [][NextApp]_vars

\* the endpoints that need no login
PublicEndpoints == { "get_hint", "get_clue_hints", "get_puzzle_by_number" }

\* C19: a public hint endpoint answering an unauthenticated caller serves the
\* text of a hint level only if that level of the clue is approved (and not
\* flagged), in every state that import, edit, approve, flag, publish and
\* unpublish can reach.
C19_ApprovalGating ==
    (pc = "responded" /\ http_request[1].endpoint \in PublicEndpoints /\ ~http_request[1].logged_in)
        => \A h \in http_response[1].hints :
               h[3] # << >> => (clues[h[1]].approved[h[2]] /\ ~clues[h[1]].flagged[h[2]])

\* hint_level is one of the integers 1, 2, 3, 4
IsHintLevel(v) == TypeOf(v) = "int" /\ v[2] >= 1 /\ v[2] <= 4

ReviewEndpoints == { "update_hint", "approve_hint", "flag_hint" }

\* C20: a logged-in request to update, approve or flag a hint whose hint_level
\* is not one of the integers 1..4 is answered 400, executes no database
\* statement and leaves every clue unchanged; with a hint_level in 1..4 (and,
\* for update, an existing clue) it is answered 200 with success; and the
\* public GET hint endpoint answers 400 for a level outside 1..4.
C20_HintLevelValidation ==
    [][ (pc = "waiting" /\ pc' = "responded") =>
          LET req == http_request'[1]
              resp == http_response'[1]
          IN  /\ (req.endpoint \in ReviewEndpoints /\ req.logged_in /\ ~IsHintLevel(req.hint_level))
                    => (resp.status = 400 /\ executed' = << >> /\ clues' = clues)
              /\ (/\ req.endpoint \in ReviewEndpoints /\ req.logged_in /\ IsHintLevel(req.hint_level)
                  /\ (req.endpoint = "update_hint" => req.id[2] \in DOMAIN clues))
                    => (resp.status = 200 /\ resp.body = "success")
              /\ (req.endpoint = "get_hint" /\ ~IsHintLevel(req.hint_level))
                    => (resp.status = 400 /\ executed' = << >>)
      ]_vars

\* the routes decorated with @login_required
AdminRoutes ==
    { "admin_dashboard", "admin_puzzles", "admin_review", "scrape_and_import", "admin_quick_import",
      "admin_init_db", "get_all_puzzles_admin", "delete_puzzle", "get_pending_puzzles",
      "get_puzzle_clues_for_review", "update_hint", "approve_hint", "flag_hint", "publish_puzzle",
      "unpublish_puzzle", "get_api_usage", "admin_usage", "get_subscribers", "delete_subscriber",
      "admin_subscribers", "import_puzzle" }

\* C21: a request to an admin route made with a session that has no logged_in
\* entry is answered 401 and reads and writes nothing; the session gains
\* logged_in only by a POST to /admin/login with the right user name and
\* password, and has lost it after /admin/logout.
C21_AdminAuthentication ==
    [][ (pc = "waiting" /\ pc' = "responded") =>
          LET req == http_request'[1]
              resp == http_response'[1]
          IN  /\ (req.endpoint \in AdminRoutes /\ ~LoggedIn)
                    => (resp.status = 401 /\ executed' = << >> /\ database' = database /\ session' = session)
              /\ (~LoggedIn /\ LoggedIn')
                    => (/\ req.endpoint = "admin_login" /\ req.method = "POST"
                        /\ req.id = JsonStr(<<"a","d","m","i","n">>) /\ req.new_text = <<"c","h","a","n","g","e","m","e","1","2","3">>)
              /\ req.endpoint = "admin_logout" => ~LoggedIn'
      ]_vars

\* after a login, an import and a logout, a delete of the puzzle is refused
C21_Witness ==
    /\ pc = "responded"
    /\ http_request[1].endpoint = "delete_puzzle"
    /\ ~LoggedIn
    /\ http_response[1].status = 401
    /\ DOMAIN clues # {}

\* the X of the leftmost explicit 'definition: X' (or 'def. X') marker, or None
DefinitionMarker(full_text) ==
    LET low == lower(full_text)
        m1 == SearchLitTail(full_text, low, <<"d","e","f","i","n","i","t","i","o","n">>, << >>, SpaceSet \cup {":"})
        m2 == SearchLitTail(full_text, low, <<"d","e","f">>, <<".">>, SpaceSet \cup {":"})
    IN  IF m1 # None THEN m1 ELSE m2

\* C22: hint 1 comes from the first rule that applies: (1) the definitions
\* given, the first or both; (2) the X of a 'definition: X' marker in the
\* prose; (3) the longest quoted phrase of the first paragraph (the quoted
\* phrases of the inputs all being short ones); (4) the generic locator
\* sentence.
C22_Hint1FallbackChain ==
    pc = "regex_done" =>
        LET marker == DefinitionMarker(JoinWith(hint_paragraphs, <<" ">>))
            quoted == FindQuoted(hint_paragraphs[1], 1)
        IN  IF Len(definitions) > 0 THEN result[1] = FormatDefinitions(definitions)
            ELSE IF marker # None THEN result[1] = <<"D","e","f","i","n","i","t","i","o","n",":"," ","'">> \o strip(marker) \o <<"'">>
            ELSE IF quoted # << >>
                THEN \E i \in 1..Len(quoted) :
                        /\ \A j \in 1..Len(quoted) : Len(quoted[j]) <= Len(quoted[i])
                        /\ Contains(result[1], quoted[i])
            ELSE result[1] = <<"L","o","o","k"," ","f","o","r"," ","t","h","e"," ","d","e","f","i","n","i","t","i","o","n"," ","a","t"," ","t","h","e"," ","s","t","a","r","t"," ","o","r"," ","e","n","d"," ","o","f"," ","t","h","e"," ","c","l","u","e">>

\* the extraction strategy _generate_structural_hint takes for a text: the
\* first of its technique branches whose own keyword test the text passes
StructuralTechnique(full_text) ==
    LET text_lower == lower(full_text)
    IN  IF Contains(text_lower, <<"a","n","a","g","r","a","m">>) THEN <<"a","n","a","g","r","a","m">>
        ELSE IF Contains(text_lower, <<"h","i","d","d","e","n">>) THEN <<"h","i","d","d","e","n">>
        ELSE IF Contains(text_lower, <<"r","e","v","e","r","s","a","l">>) \/ Contains(text_lower, <<"r","e","v","e","r","s","e","d">>) THEN <<"r","e","v","e","r","s","a","l">>
        ELSE IF ContainsAny(text_lower, << <<"c","o","n","t","a","i","n","e","r">>, <<"e","n","v","e","l","o","p","e">>, <<"i","n","s","e","r","t","i","o","n">> >>) THEN <<"c","o","n","t","a","i","n","e","r">>
        ELSE IF Contains(text_lower, <<"h","o","m","o","p","h","o","n","e">>) \/ Contains(text_lower, <<"s","o","u","n","d","s"," ","l","i","k","e">>) THEN <<"h","o","m","o","p","h","o","n","e">>
        ELSE IF Contains(text_lower, <<"d","o","u","b","l","e"," ","d","e","f","i","n","i","t","i","o","n">>) \/ Contains(text_lower, <<"t","w","o"," ","d","e","f","i","n","i","t","i","o","n","s">>)
            THEN <<"d","o","u","b","l","e","_","d","e","f","i","n","i","t","i","o","n">>
        ELSE IF ContainsAny(text_lower, << <<"c","h","a","r","a","d","e">>, <<"f","o","l","l","o","w","e","d"," ","b","y">>, <<"p","l","u","s">>, <<" ","+"," ">> >>) THEN <<"c","h","a","r","a","d","e">>
        ELSE IF Contains(text_lower, <<"d","e","l","e","t","i","o","n">>)
                \/ ContainsAny(text_lower, << <<"h","e","a","d","l","e","s","s">>, <<"e","n","d","l","e","s","s">>, <<"h","e","a","r","t","l","e","s","s">>, <<"b","e","h","e","a","d","e","d">>, <<"c","u","r","t","a","i","l","e","d">> >>)
            THEN <<"d","e","l","e","t","i","o","n">>
        ELSE None

\* the techniques of the table whose hint sentence a hint 2 is
NamedTechniques(hint_2) ==
    { WORDPLAY_TECHNIQUES[k].name :
        k \in { j \in 1..Len(WORDPLAY_TECHNIQUES) : WORDPLAY_TECHNIQUES[j].hint = hint_2 } }

\* C23: hint 3 is built by the extraction strategy of the technique hint 2
\* names (container and insertion share one strategy), and by the fallback
\* strategy exactly when hint 2 names no technique.
C23_SameTechnique ==
    pc = "regex_done" =>
        LET strategy == StructuralTechnique(JoinWith(hint_paragraphs, <<" ">>))
            named == NamedTechniques(result[2])
        IN  IF named = {} THEN strategy = None
            ELSE \E n \in named :
                    \/ strategy = n
                    \/ (n = <<"i","n","s","e","r","t","i","o","n">> /\ strategy = <<"c","o","n","t","a","i","n","e","r">>)

\* C24: when the caller supplies an answer and the regex path produces the
\* result, hint 4 reports that answer, not the longest all-caps word of the
\* paragraphs.
C24_SuppliedAnswerPreferred ==
    ( /\ pc = "returned" /\ Truthy(answer) /\ Len(hint_paragraphs) > 0
      /\ (response = << >> \/ ClaudeHints(response[1]) = None) )
        => Contains(result[4], <<"A","n","s","w","e","r",":"," ">> \o answer)

\* C25: when the text holds no primary indicator phrase, hint 2 is the hint
\* of a technique left after the thresholds whose score no other such
\* technique exceeds and no earlier one of the table equals; it is the generic
\* sentence when none is left.  With 'within' the only keyword found, hidden
\* comes before insertion.
C25_Tier2Selection ==
    (pc = "technique_done" /\ \A k \in 1..Len(primary_indicators) : ~Tier1Present(k)) =>
        LET c == TechniqueCandidates(ClassifiedText)
        IN  IF c = {} THEN result[1] = GenericTechniqueHint
            ELSE \E k \in c :
                    /\ result[1] = WORDPLAY_TECHNIQUES[k].hint
                    /\ \A j \in c : TechniqueScore(j, ClassifiedText) <= TechniqueScore(k, ClassifiedText)
                    /\ \A j \in c : j < k =>
                            TechniqueScore(j, ClassifiedText) < TechniqueScore(k, ClassifiedText)

\* 'within' alone: hidden and insertion tie at 1, charade ('with') is dropped
C25_Witness ==
    /\ pc = "technique_done"
    /\ hint_paragraphs = << <<"P"," ","w","i","t","h","i","n"," ","Q">> >>
    /\ ScoreOf(<<"h","i","d","d","e","n">>) = 1 /\ ScoreOf(<<"i","n","s","e","r","t","i","o","n">>) = 1
    /\ TechIndex(<<"h","i","d","d","e","n">>) < TechIndex(<<"i","n","s","e","r","t","i","o","n">>)
    /\ TechniqueCandidates(ClassifiedText) = { TechIndex(<<"h","i","d","d","e","n">>), TechIndex(<<"i","n","s","e","r","t","i","o","n">>) }
    /\ result[1] = TechHint(<<"h","i","d","d","e","n">>)

\* the JSON object an HTTP 200 response carries, or NoJson
ParsedObject(resp) ==
    IF resp.kind = "http" /\ resp.status = StatusOK /\ resp.data.shape = "dict"
       /\ Len(resp.data.content) > 0 /\ resp.data.content[1].has_text
    THEN JsonLoads(Unfence(resp.data.content[1].text))
    ELSE NoJson

\* the object lacks at least one of hint1..hint4
LacksSomeHint(obj) ==
    obj.type = "dict" /\ \E k \in 1..Len(HintKeys) : HintKeys[k] \notin DOMAIN obj.fields

\* C26: an HTTP 200 whose text parses, bare or fenced, to a JSON object that
\* lacks some of hint1..hint4 is a success: the call returns the empty string
\* at the missing positions and the given values at the others, not the
\* regex hints, and the usage is recorded once.
C26_PartialSuccess ==
    [][ (pc = "in_flight" /\ pc' = "returned" /\ LacksSomeHint(ParsedObject(response'[1]))) =>
            LET obj == ParsedObject(response'[1])
            IN  /\ Len(result') = 4
                /\ \A k \in 1..4 :
                      result'[k] = IF HintKeys[k] \in DOMAIN obj.fields
                                   THEN obj.fields[HintKeys[k]] ELSE << >>
                /\ total_api_calls' = << Val(total_api_calls) + 1 >>
                /\ total_input_tokens' = << Val(total_input_tokens) + response'[1].data.usage.input_tokens >>
                /\ total_output_tokens' = << Val(total_output_tokens) + response'[1].data.usage.output_tokens >>
      ]_vars

(***************************************************************************)
(* The gunicorn workers handling requests on one database                  *)
(***************************************************************************)
workers == 2
Workers == 1..workers

\* every clue of the puzzle has its four levels approved
AllApproved(cl, puzzle_id) ==
    \A c \in DOMAIN cl :
        cl[c].puzzle_id = puzzle_id => \A n \in VALID_HINT_LEVELS : cl[c].approved[n]

\* a puzzle with one clue has been scraped and imported and the reviewer has
\* logged in; each worker waits for a request
InitWorkers ==
    /\ NoManager
    /\ NoConfig
    /\ NoCall
    /\ NoDetector
    /\ id_seq = [ puzzles |-> 1, clues |-> 1 ]
    /\ session = << [ logged_in |-> TRUE, username |-> ADMIN_USERNAME ] >>
    /\ LET imported == scrape_and_import(<< >>, << >>, << >>, [ puzzles |-> 0, clues |-> 0 ], <<"2","9","0","0","0">>,
                                         [ outcome |-> "puzzle", clues |-> << [ hints |-> ImportedHints ] >>,
                                           api_calls |-> 1 ])
       IN  puzzles = imported.puzzles /\ clues = imported.clues
    /\ hint_revisions = << >>
    /\ pc = [ w \in Workers |-> "idle" ]
    /\ http_request = [ w \in Workers |-> << >> ]
    /\ http_response = [ w \in Workers |-> << >> ]
    /\ executed = [ w \in Workers |-> << >> ]

\* publish_puzzle in worker w up to its first fetchone(): the SELECT COUNT
\* has read the committed clues
WorkerCounts(w) ==
    /\ pc[w] = "idle"
    /\ \E puzzle_id \in PuzzleIds :
        http_request' = [http_request EXCEPT ![w] =
                            << Request("publish_puzzle", "POST", LoggedIn, JsonInt(puzzle_id), JsonNull, None) >>]
    /\ executed' = [executed EXCEPT ![w] = << clues >>]
    /\ pc' = [pc EXCEPT ![w] = "counted"]
    /\ UNCHANGED << manager, config, usage, call, detector, database, session, http_response >>

\* the rest of publish_puzzle in worker w: it decides on the count it read,
\* and its UPDATE of the puzzle is committed
WorkerPublishes(w) ==
    /\ pc[w] = "counted"
    /\ LET outcome == login_required(LoggedIn,
                          publish_puzzle(puzzles, executed[w][1], hint_revisions, http_request[w][1].id[2]),
                          puzzles, clues, hint_revisions)
       IN  /\ puzzles' = outcome.puzzles
           /\ http_response' = [http_response EXCEPT ![w] = << outcome.response >>]
           /\ executed' = [executed EXCEPT ![w] = outcome.executed]
    /\ pc' = [pc EXCEPT ![w] = "responded"]
    /\ UNCHANGED << manager, config, usage, call, detector, clues, hint_revisions, id_seq, session, http_request >>

\* a handler of one statement and its commit, in worker w
WorkerHandles(w, req, outcome) ==
    /\ http_request' = [http_request EXCEPT ![w] = << req >>]
    /\ http_response' = [http_response EXCEPT ![w] = << outcome.response >>]
    /\ executed' = [executed EXCEPT ![w] = outcome.executed]
    /\ puzzles' = outcome.puzzles
    /\ clues' = outcome.clues
    /\ pc' = [pc EXCEPT ![w] = "responded"]
    /\ UNCHANGED << manager, config, usage, call, detector, hint_revisions, id_seq, session >>

WorkerApproves(w) ==
    /\ pc[w] = "idle"
    /\ \E clue_id \in DOMAIN clues, n \in VALID_HINT_LEVELS :
        WorkerHandles(w, Request("approve_hint", "POST", LoggedIn, JsonInt(clue_id), JsonInt(n), None),
                      login_required(LoggedIn, approve_hint(puzzles, clues, hint_revisions, clue_id, JsonInt(n)),
                                     puzzles, clues, hint_revisions))

WorkerFlags(w) ==
    /\ pc[w] = "idle"
    /\ \E clue_id \in DOMAIN clues, n \in VALID_HINT_LEVELS :
        WorkerHandles(w, Request("flag_hint", "POST", LoggedIn, JsonInt(clue_id), JsonInt(n), None),
                      login_required(LoggedIn, flag_hint(puzzles, clues, hint_revisions, clue_id, JsonInt(n)),
                                     puzzles, clues, hint_revisions))

WorkerUnpublishes(w) ==
    /\ pc[w] = "idle"
    /\ \E puzzle_id \in PuzzleIds :
        WorkerHandles(w, Request("unpublish_puzzle", "POST", LoggedIn, JsonInt(puzzle_id), JsonNull, None),
                      login_required(LoggedIn, unpublish_puzzle(puzzles, clues, hint_revisions, puzzle_id),
                                     puzzles, clues, hint_revisions))

\* worker w has sent its response and waits for the next request
WorkerResponds(w) ==
    /\ pc[w] = "responded"
    /\ pc' = [pc EXCEPT ![w] = "idle"]
    /\ http_request' = [http_request EXCEPT ![w] = << >>]
    /\ http_response' = [http_response EXCEPT ![w] = << >>]
    /\ executed' = [executed EXCEPT ![w] = << >>]
    /\ UNCHANGED << manager, config, usage, call, detector, database, session >>

NextWorkers ==
    \E w \in Workers :
        \/ WorkerCounts(w) \/ WorkerPublishes(w) \/ WorkerApproves(w) \/ WorkerFlags(w)
        \/ WorkerUnpublishes(w) \/ WorkerResponds(w)

SpecWorkers == InitWorkers /\ [][NextWorkers]_vars

\* C27: a puzzle's status becomes 'published' only in a step taken while
\* every clue of the puzzle has its four levels approved, whatever the other
\* worker committed meanwhile; a publish call that finds a level unapproved
\* answers 400 and leaves the puzzles table as it is.
C27_PublishGuard ==
    [][ /\ \A p \in DOMAIN puzzles \cap DOMAIN puzzles' :
              (puzzles[p].status # "published" /\ puzzles'[p].status = "published")
                  => AllApproved(clues, p)
        /\ \A w \in Workers :
              (pc[w] = "counted" /\ pc'[w] = "responded" /\ http_response'[w][1].status = 400)
                  => puzzles' = puzzles
      ]_vars

(***************************************************************************)
(* The review of one imported puzzle by a logged-in reviewer               *)
(***************************************************************************)
\* a puzzle with two clues has been scraped and imported (its flags all
\* false) and the reviewer has logged in
InitReview ==
    /\ NoManager
    /\ NoConfig
    /\ NoCall
    /\ NoDetector
    /\ pc = "waiting"
    /\ id_seq = [ puzzles |-> 1, clues |-> 2 ]
    /\ session = << [ logged_in |-> TRUE, username |-> ADMIN_USERNAME ] >>
    /\ LET imported == scrape_and_import(<< >>, << >>, << >>, [ puzzles |-> 0, clues |-> 0 ], <<"2","9","0","0","0">>,
                                         [ outcome |-> "puzzle",
                                           clues |-> << [ hints |-> ImportedHints ], [ hints |-> ImportedHints ] >>,
                                           api_calls |-> 2 ])
       IN  puzzles = imported.puzzles /\ clues = imported.clues
    /\ hint_revisions = << >>
    /\ http_request = << >> /\ http_response = << >> /\ executed = << >>

NextReview == UpdateHint \/ ApproveHint \/ FlagHint \/ SendResponse

SpecReview == InitReview /\ [][NextReview]_vars

\* level n of clue d: its text and its two flags
LevelState(cl, d, n) ==
    << cl[d].hint_level[n], cl[d].approved[n], cl[d].flagged[n] >>

\* C28: a review call on level k of clue c leaves every other level of c and
\* every level of every other clue as it was; an update that succeeds puts
\* the new text at level k, clears its flag, keeps its approval, and appends
\* one revision with the old and the new text.
C28_PerLevelIndependence ==
    [][ (pc = "waiting" /\ pc' = "responded" /\ http_request'[1].endpoint \in ReviewEndpoints) =>
            LET req == http_request'[1]
                c == req.id[2]
            IN  /\ DOMAIN clues' = DOMAIN clues
                /\ \A d \in DOMAIN clues, n \in VALID_HINT_LEVELS :
                      (d # c \/ req.hint_level # JsonInt(n))
                          => LevelState(clues', d, n) = LevelState(clues, d, n)
                /\ (req.endpoint = "update_hint" /\ http_response'[1].status = 200) =>
                      \E k \in VALID_HINT_LEVELS :
                          /\ req.hint_level = JsonInt(k)
                          /\ clues'[c].hint_level[k] = req.new_text
                          /\ clues'[c].flagged[k] = FALSE
                          /\ clues'[c].approved[k] = clues[c].approved[k]
                          /\ hint_revisions' = Append(hint_revisions,
                                                      [ clue_id |-> c, hint_level |-> k,
                                                        old_text |-> clues[c].hint_level[k],
                                                        new_text |-> req.new_text ])
                /\ req.endpoint # "update_hint" => hint_revisions' = hint_revisions
      ]_vars

\* an approved level of the second clue has been edited while the first clue
\* has a flagged level
C28_Witness ==
    /\ pc = "responded"
    /\ http_request[1].endpoint = "update_hint" /\ http_response[1].status = 200
    /\ http_request[1].id = JsonInt(2) /\ http_request[1].hint_level = JsonInt(3)
    /\ clues[2].hint_level[3] = <<"e","d","i","t","e","d">> /\ clues[2].approved[3]
    /\ clues[2].hint_level[4] = <<"h","i","n","t"," ","4">>
    /\ clues[1].flagged[1] /\ clues[1].hint_level[3] = <<"h","i","n","t"," ","3">>

\* C29: no level of a clue is both approved and flagged, whatever was
\* imported and whatever calls followed; an approve call that succeeds on a
\* level leaves it approved and not flagged, a flag call flagged and not
\* approved.
C29_ApprovedFlaggedExclusive ==
    [][ /\ \A d \in DOMAIN clues', n \in VALID_HINT_LEVELS :
              ~(clues'[d].approved[n] /\ clues'[d].flagged[n])
        /\ (pc = "waiting" /\ pc' = "responded") =>
              LET req == http_request'[1]
              IN  ( /\ req.endpoint \in { "approve_hint", "flag_hint" }
                    /\ http_response'[1].status = 200
                    /\ IsHintLevel(req.hint_level)
                    /\ req.id[2] \in DOMAIN clues )
                     => LET now == clues'[req.id[2]]
                            n == req.hint_level[2]
                        IN  IF req.endpoint = "approve_hint"
                            THEN now.approved[n] /\ ~now.flagged[n]
                            ELSE now.flagged[n] /\ ~now.approved[n]
      ]_vars

\* a level has been approved while another level of the clue is flagged
C29_Witness ==
    /\ pc = "responded"
    /\ http_request[1].endpoint = "approve_hint" /\ http_response[1].status = 200
    /\ http_request[1].hint_level = JsonInt(1)
    /\ http_request[1].id[2] \in DOMAIN clues
    /\ clues[http_request[1].id[2]].approved[1]
    /\ ~clues[http_request[1].id[2]].flagged[1]
    /\ clues[http_request[1].id[2]].flagged[2]

(***************************************************************************)
(* PuzzleManager: the active puzzle file and the archive directory         *)
(***************************************************************************)
\* datetime.now().isoformat() (the clock is not part of the model)
NOW == << "now" >>

\* the dict import_puzzle builds (its clues, hints and setter are not part
\* of the model); archived_at and reactivated_at are None while the dict has
\* no such key
NewPuzzle(puzzle_number, date) ==
    [ number |-> puzzle_number, date |-> date, status |-> "active",
      archived_at |-> None, reactivated_at |-> None ]

\* the directory with the file puzzle_<number>.json written
WriteArchive(archive, puzzle) ==
    [ n \in DOMAIN archive \cup { puzzle.number } |->
        IF n = puzzle.number THEN puzzle ELSE archive[n] ]

\* archive_current storing the puzzle with the status it has
archive_current_keeps_status(active, archive) ==
    IF active = << >> THEN archive
    ELSE WriteArchive(archive, [ active[1] EXCEPT !.archived_at = NOW ])

\* archive_current: the archive directory it leaves
archive_current(active, archive) ==
    IF active = << >> THEN archive
    ELSE WriteArchive(archive, [ active[1] EXCEPT !.status = "archived", !.archived_at = NOW ])

\* what a call on the manager leaves: the two stores and what it raised
Left(active, archive, raised) == [ active_file |-> active, archive_dir |-> archive, raised |-> raised ]

import_puzzle_file(active, archive, puzzle_number, date) ==
    Left(<< NewPuzzle(puzzle_number, date) >>,
         IF active # << >> THEN archive_current(active, archive) ELSE archive,
         None)

make_puzzle_active(active, archive, puzzle_number) ==
    IF puzzle_number \notin DOMAIN archive
    THEN Left(active, archive, <<"V","a","l","u","e","E","r","r","o","r">>)
    ELSE LET archived == IF active # << >> THEN archive_current(active, archive) ELSE archive
         IN  Left(<< [ archived[puzzle_number] EXCEPT !.status = "active", !.reactivated_at = NOW ] >>,
                  archived, None)

\* the puzzle numbers and publication dates of the calls
ManagerNumbers == { <<"2","9","9","1","5">>, <<"2","9","9","1","6">> }
ManagerDates == { <<"2","0","2","4","-","0","1","-","0","1">>, <<"2","0","2","4","-","0","1","-","0","8">> }

\* PuzzleManager(): an empty data directory
InitManager ==
    /\ NoConfig
    /\ NoCall
    /\ NoDetector
    /\ NoWebApp
    /\ pc = "manager"
    /\ active_file = << >>
    /\ archive_dir = << >>
    /\ manager_call = << >>

Called(method, puzzle_number, left) ==
    /\ active_file' = left.active_file
    /\ archive_dir' = left.archive_dir
    /\ manager_call' = << [ method |-> method, puzzle_number |-> puzzle_number, raised |-> left.raised ] >>
    /\ UNCHANGED << webapp, config, usage, call, pc, detector >>

ImportPuzzleFile ==
    /\ pc = "manager"
    /\ \E puzzle_number \in ManagerNumbers, date \in ManagerDates :
        Called("import_puzzle", puzzle_number,
               import_puzzle_file(active_file, archive_dir, puzzle_number, date))

MakePuzzleActive ==
    /\ pc = "manager"
    /\ \E puzzle_number \in ManagerNumbers :
        Called("make_puzzle_active", puzzle_number,
               make_puzzle_active(active_file, archive_dir, puzzle_number))

NextManager == ImportPuzzleFile \/ MakePuzzleActive

SpecManager == InitManager /\ [][NextManager]_vars

\* the call of a step has returned: one active puzzle, with status 'active'
OneActive ==
    manager_call'[1].raised = None
        => (Len(active_file') = 1 /\ active_file'[1].status = "active")

\* the puzzle a call replaced is in the archive under its number, archived
ReplacedIsArchived ==
    (manager_call'[1].raised = None /\ active_file # << >>) =>
        LET n == active_file[1].number
        IN  /\ n \in DOMAIN archive_dir'
            /\ archive_dir'[n].number = n
            /\ archive_dir'[n].date = active_file[1].date
            /\ archive_dir'[n].status = "archived"

\* a call for a number the archive lacks raises and changes nothing
ValueErrorChangesNothing ==
    /\ (manager_call'[1].method = "make_puzzle_active"
            /\ manager_call'[1].puzzle_number \notin DOMAIN archive_dir)
          => (/\ manager_call'[1].raised = <<"V","a","l","u","e","E","r","r","o","r">>
              /\ active_file' = active_file /\ archive_dir' = archive_dir)
    /\ manager_call'[1].raised # None
          => (/\ manager_call'[1].method = "make_puzzle_active"
              /\ manager_call'[1].puzzle_number \notin DOMAIN archive_dir)

\* C30 as stated: after a call there is one active puzzle, with status
\* 'active'; the puzzle the call replaced is in the archive under its number
\* with status 'archived', and every puzzle archived before is still there,
\* so that no puzzle that was active is lost; make_puzzle_active of a number
\* not in the archive raises ValueError and changes nothing.
C30_ArchiveOnReplaceAsStated ==
    [][ /\ OneActive
        /\ ReplacedIsArchived
        /\ \A n \in DOMAIN archive_dir :
              /\ n \in DOMAIN archive_dir'
              /\ archive_dir'[n].date = archive_dir[n].date
              /\ archive_dir'[n].status = "archived"
        /\ ValueErrorChangesNothing
      ]_vars

\* C30: after a call that returns there is one active puzzle, with status
\* 'active'; the puzzle the call replaced is in the archive under its number
\* with status 'archived'; the archive keeps one puzzle per number: a number
\* once archived stays, with status 'archived', and holds the puzzle of that
\* number archived last; make_puzzle_active of a number not in the archive
\* raises ValueError and changes nothing.
C30_ArchiveOnReplace ==
    [][ /\ OneActive
        /\ ReplacedIsArchived
        /\ \A n \in DOMAIN archive_dir :
              /\ n \in DOMAIN archive_dir'
              /\ archive_dir'[n].status = "archived"
              /\ \/ archive_dir'[n] = archive_dir[n]
                 \/ (/\ manager_call'[1].raised = None
                     /\ active_file # << >> /\ active_file[1].number = n
                     /\ archive_dir'[n].date = active_file[1].date)
        /\ ValueErrorChangesNothing
      ]_vars

\* an archived puzzle has been made active again in place of another one,
\* which is now in the archive beside it
C30_Witness ==
    /\ manager_call # << >>
    /\ manager_call[1].method = "make_puzzle_active" /\ manager_call[1].raised = None
    /\ active_file # << >>
    /\ active_file[1].number = manager_call[1].puzzle_number
    /\ active_file[1].status = "active" /\ active_file[1].reactivated_at = NOW
    /\ \E n \in DOMAIN archive_dir :
          n # active_file[1].number /\ archive_dir[n].status = "archived"

====
